---------------------------- MODULE Spec2Model ----------------------------
(***************************************************************************)
(* A model of the spatial query engine (DataLoader), the selection session *)
(* (RadialSelection), the map overlays (MapView) and the panel handlers    *)
(* that drive them (AnalyticsPanel, LocationCard, FiltersCard).            *)
(*                                                                         *)
(* Fixed point.  TLC has 32-bit integers and no reals, so coordinates and  *)
(* distances are scaled integers:                                          *)
(*   latitude   in units of 1e-4 degree (13000 = 1.3000 N);                *)
(*   longitude  in units of 1e-4 degree east of the fixture's west edge    *)
(*              (the code uses longitudes only through differences);       *)
(*   distances and radii in decimetres (10000 = 1000 m).                   *)
(* A transaction is identified by its position in DataLoader.data, which   *)
(* is 1-based here and 0-based in the code.                                *)
(* A nullable value is <<>> (null) or <<v>>.                               *)
(***************************************************************************)
EXTENDS Integers, Sequences, FiniteSets, TLC

VARIABLES
    data,            \* DataLoader.data
    spatialIndex,    \* DataLoader.spatialIndex: null or the set of SpatialItem
    loads,           \* the position of each invocation of DataLoader.load
    lastQuery,       \* history: the last direct query and what it returned
    radialSelection, \* RadialSelection: centerLat, centerLng, radiusMeters, isActive
    lastSet,         \* history: the arguments of the last setSelection since the
                     \* last clearSelection, null when there is none
    build,           \* which panel is built: "panel" is AnalyticsPanel.ts alone,
                     \* "cards" is the AnalyticsPanel that delegates to LocationCard
                     \* and FiltersCard
    mapView,         \* MapView: overlays, highlighted set, selection-active marker
    isDragging,      \* the closure variable of MapView.setOnDragSelection
    panel,           \* AnalyticsPanel / LocationCard fields
    appState,        \* the keys of the StateStore the handlers use
    radiusInput,     \* value of #radius-input, in metres
    pendingSearches, \* performSearch invocations waiting in PostalSearch.search
    rendered,        \* what the statistics and the fair-value view were rendered from
    committed,       \* history: the kind of the selection committed last
    coefficients,    \* FairValueAnalysis.coefficients: null or the parsed document
    coefLoad,        \* the position of the invocation of loadCoefficients
    lastCall,        \* history: the last call observed, its arguments and result
    listeners,       \* StateStore.listeners: per key, null or the Set of callbacks
    notified         \* history: the listener invocations of the last set(), and
                     \* the callbacks whose unsubscribe function has been called

(***************************************************************************)
(* Bounds of the model.                                                    *)
(***************************************************************************)
MaxRows == 2      \* rows of a loaded table
MaxLoads == 2     \* invocations of load() that may overlap
MaxPending == 1   \* postal searches that may be in flight

(***************************************************************************)
(* Program constants.                                                      *)
(***************************************************************************)
EarthRadiusM == 6371000      \* const R, DataLoader.haversineDistance
MetersPerDegree == 111000    \* latOffset = radiusMeters / 111000

Null == <<>>
Some(v) == <<v>>
IsNull(o) == o = <<>>
Val(o) == o[1]

Abs(x) == IF x < 0 THEN -x ELSE x
Min(a, b) == IF a < b THEN a ELSE b
Max(a, b) == IF a > b THEN a ELSE b

RECURSIVE IsqrtIter(_, _, _)
IsqrtIter(n, lo, hi) ==
    IF lo >= hi THEN lo
    ELSE LET mid == (lo + hi + 1) \div 2
         IN  IF mid * mid <= n THEN IsqrtIter(n, mid, hi)
                               ELSE IsqrtIter(n, lo, mid - 1)

\* Math.sqrt on non-negative integers, rounded down.
Isqrt(n) == IsqrtIter(n, 0, 46340)

(***************************************************************************)
(* Math.cos((lat * Math.PI) / 180) in units of 1e-4, by 1 - x^2/2 (the     *)
(* next term is below 1e-7 for the latitudes of the fixture).              *)
(*   x^2/2 = lat4^2 * (1e-4*pi/180)^2 / 2 = lat4^2 * 1.5231e-12            *)
(***************************************************************************)
CosE4(lat4) == 10000 - (((lat4 \div 100) * (lat4 \div 100)) * 15231) \div 100000000

\* R * pi / 180, the length of one degree of a great circle, in centimetres
\* per 1e-4 degree ( = decimetres per 1e-4 degree, times 10000 ).
ArcDmE4 == ((EarthRadiusM \div 1000) * 314159) \div 1800

(***************************************************************************)
(* DataLoader.haversineDistance, in decimetres, rounded down.  For the     *)
(* distances of the fixture (below 3 km) sin x = x and                     *)
(* atan2(sqrt a, sqrt(1-a)) = sqrt a hold to better than 1e-7, so          *)
(*   R * c = R * sqrt(dLat^2 + cos(lat1) cos(lat2) dLng^2).                *)
(***************************************************************************)
haversineDistance(lat1, lng1, lat2, lng2) ==
    LET dy  == (Abs(lat2 - lat1) * ArcDmE4) \div 10000
        dx  == (Abs(lng2 - lng1) * ArcDmE4) \div 10000
        cc  == (CosE4(lat1) * CosE4(lat2)) \div 10000
        dx2 == dx * dx - (((dx * dx) \div 100) * (10000 - cc)) \div 100
    IN  Isqrt(dy * dy + dx2)

(***************************************************************************)
(* The fixture: positions on a small grid around (1.3000 N, origin).       *)
(***************************************************************************)
LatSet == {13000, 13080, 13090}
LngSet == {0, 80, 90}
Positions == [lat : LatSet, lng : LngSet]

Tx(lat, lng, ft, lease, age) ==
    [latitude |-> lat, longitude |-> lng, flat_type |-> ft,
     remaining_lease_years |-> lease,
     age_days |-> age]      \* days between transaction_date and now

\* The rows a served table may hold.
RowPositions == {[lat |-> 13000, lng |-> 0], [lat |-> 13080, lng |-> 80],
                 [lat |-> 13090, lng |-> 0], [lat |-> 13000, lng |-> 90],
                 [lat |-> 13090, lng |-> 90]}
Rows == {Tx(p.lat, p.lng, "3 ROOM", 80, 100) : p \in RowPositions}

RECURSIVE SeqsUpTo(_, _)
SeqsUpTo(S, n) ==
    IF n = 0 THEN {<<>>}
    ELSE LET shorter == SeqsUpTo(S, n - 1)
         IN  shorter \cup {Append(s, x) : s \in {t \in shorter : Len(t) = n - 1}, x \in S}

Tables == SeqsUpTo(Rows, MaxRows)

\* Radii in decimetres: a negative one, none, 500 m, 1000 m, 1001 m, 1260 m.
Radii == {-10, 0, 5000, 10000, 10010, 12600}


(***************************************************************************)
(* DataLoader                                                              *)
(***************************************************************************)

\* buildSpatialIndex run on the array load() is about to replace.
buildSpatialIndex_Stale(d) ==
    {[minX |-> data[i].longitude, minY |-> data[i].latitude,
      maxX |-> data[i].longitude, maxY |-> data[i].latitude, index |-> i] : i \in DOMAIN data}

\* DataLoader.buildSpatialIndex: one degenerate box per row, with the row's
\* position in the array as back-reference.
buildSpatialIndex(d) ==
    {[minX |-> d[i].longitude, minY |-> d[i].latitude,
      maxX |-> d[i].longitude, maxY |-> d[i].latitude, index |-> i] : i \in DOMAIN d}

\* The box with a degree of latitude taken as 112 km.
CircleBBox_LongDegree(centerLat, centerLng, radiusMeters) ==
    LET denY == (MetersPerDegree \div 1000) + 1
        denX == ((MetersPerDegree \div 1000) + 1) * CosE4(centerLat)
    IN  [denX |-> denX, denY |-> denY,
         minX |-> centerLng * denX - radiusMeters * 10000,
         minY |-> centerLat * denY - radiusMeters,
         maxX |-> centerLng * denX + radiusMeters * 10000,
         maxY |-> centerLat * denY + radiusMeters]

(***************************************************************************)
(* A query box.  Its bounds are rationals: bound / den in 1e-4 degree, so  *)
(* that radiusMeters / 111000 and radiusMeters / (111000 cos lat) are      *)
(* exact.                                                                  *)
(***************************************************************************)
CircleBBox(centerLat, centerLng, radiusMeters) ==
    LET denY == MetersPerDegree \div 1000
        denX == (MetersPerDegree \div 1000) * CosE4(centerLat)
    IN  [denX |-> denX, denY |-> denY,
         minX |-> centerLng * denX - radiusMeters * 10000,
         minY |-> centerLat * denY - radiusMeters,
         maxX |-> centerLng * denX + radiusMeters * 10000,
         maxY |-> centerLat * denY + radiusMeters]

\* RBush.search: the items whose box intersects the query box, bounds included.
RBushSearch(items, bbox) ==
    {it \in items :
        /\ it.minX * bbox.denX <= bbox.maxX
        /\ it.maxX * bbox.denX >= bbox.minX
        /\ it.minY * bbox.denY <= bbox.maxY
        /\ it.maxY * bbox.denY >= bbox.minY}

\* queryCircle returning the candidates of the box unfiltered.
queryCircle_NoFilter(centerLat, centerLng, radiusMeters) ==
    IF IsNull(spatialIndex) THEN {}
    ELSE {it.index : it \in RBushSearch(Val(spatialIndex),
                                        CircleBBox(centerLat, centerLng, radiusMeters))}

\* queryCircle with the comparison of the filter turned around.
queryCircle_Outside(centerLat, centerLng, radiusMeters) ==
    IF IsNull(spatialIndex) THEN {}
    ELSE {it.index : it \in
             {c \in RBushSearch(Val(spatialIndex),
                                CircleBBox(centerLat, centerLng, radiusMeters)) :
                 haversineDistance(centerLat, centerLng, data[c.index].latitude,
                                   data[c.index].longitude) >= radiusMeters}}

\* DataLoader.queryCircle: the positions in data of the returned transactions.
queryCircle(centerLat, centerLng, radiusMeters) ==
    IF IsNull(spatialIndex) THEN {}
    ELSE LET candidates == RBushSearch(Val(spatialIndex),
                                       CircleBBox(centerLat, centerLng, radiusMeters))
         IN  {it.index : it \in
                 {c \in candidates :
                     haversineDistance(centerLat, centerLng,
                                       data[c.index].latitude,
                                       data[c.index].longitude) <= radiusMeters}}

\* DataLoader.queryRectangle: the candidates of the box, kept when they lie
\* within its closed bounds.
queryRectangle(minLat, minLng, maxLat, maxLng) ==
    IF IsNull(spatialIndex) THEN {}
    ELSE LET bbox == [denX |-> 1, denY |-> 1, minX |-> minLng, minY |-> minLat,
                      maxX |-> maxLng, maxY |-> maxLat]
         IN  {it.index : it \in
                 {c \in RBushSearch(Val(spatialIndex), bbox) :
                     /\ data[c.index].latitude >= minLat
                     /\ data[c.index].latitude <= maxLat
                     /\ data[c.index].longitude >= minLng
                     /\ data[c.index].longitude <= maxLng}}

LoadIds == 1 .. MaxLoads

dlVars == <<data, spatialIndex, loads>>
sessVars == <<radialSelection, lastSet>>
uiVars == <<build, mapView, isDragging, panel, appState, radiusInput,
            pendingSearches, rendered, committed>>
fvVars == <<coefficients, coefLoad, lastCall>>
storeVars == <<listeners, notified>>
vars == <<data, spatialIndex, loads, lastQuery, radialSelection, lastSet, build,
          mapView, isDragging, panel, appState, radiusInput, pendingSearches,
          rendered, committed, coefficients, coefLoad, lastCall, listeners,
          notified>>

(***************************************************************************)
(* RadialSelection                                                         *)
(***************************************************************************)
\* The fields after construction.
RadialSelectionInit ==
    [centerLat |-> Null, centerLng |-> Null, radiusMeters |-> 0, isActive |-> FALSE]

\* setSelection that leaves the stored radius as it was.
setSelection_KeepsRadius(rs, centerLat, centerLng, radiusMeters) ==
    [centerLat |-> Some(centerLat), centerLng |-> Some(centerLng),
     radiusMeters |-> rs.radiusMeters, isActive |-> TRUE]

\* RadialSelection.setSelection
setSelection(rs, centerLat, centerLng, radiusMeters) ==
    [centerLat |-> Some(centerLat), centerLng |-> Some(centerLng),
     radiusMeters |-> radiusMeters, isActive |-> TRUE]

\* RadialSelection.clearSelection
clearSelection(rs) ==
    [centerLat |-> Null, centerLng |-> Null, radiusMeters |-> 0, isActive |-> FALSE]

\* RadialSelection.getSelectedTransactions: null, or the result of queryCircle.
getSelectedTransactions(rs) ==
    IF ~rs.isActive \/ IsNull(rs.centerLat) \/ IsNull(rs.centerLng) THEN Null
    ELSE Some(queryCircle(Val(rs.centerLat), Val(rs.centerLng), rs.radiusMeters))

\* RadialSelection.hasSelection, the read accessor of the radius edit.
hasSelection(rs) == rs.isActive

\* RadialSelection.getCurrentCenter: {lat, lng} of the stored center, or null.
getCurrentCenter(rs) ==
    IF IsNull(rs.centerLat) \/ IsNull(rs.centerLng) THEN Null
    ELSE Some([lat |-> Val(rs.centerLat), lng |-> Val(rs.centerLng)])

\* load(url) is called: it runs up to `await fetch(url)`.
LoadCall(l) ==
    /\ loads[l] \in {"idle", "done", "failed"}
    /\ loads' = [loads EXCEPT ![l] = "fetch"]
    /\ UNCHANGED <<data, spatialIndex, lastQuery, sessVars, uiVars, fvVars, storeVars>>

\* fetch resolves: load runs up to `await response.arrayBuffer()`.
FetchResolve(l) ==
    /\ loads[l] = "fetch"
    /\ loads' = [loads EXCEPT ![l] = "arrayBuffer"]
    /\ UNCHANGED <<data, spatialIndex, lastQuery, sessVars, uiVars, fvVars, storeVars>>

\* fetch or arrayBuffer rejects: load rejects at its await, touching nothing.
LoadReject(l) ==
    /\ loads[l] \in {"fetch", "arrayBuffer"}
    /\ loads' = [loads EXCEPT ![l] = "failed"]
    /\ UNCHANGED <<data, spatialIndex, lastQuery, sessVars, uiVars, fvVars, storeVars>>

\* arrayBuffer resolves with bytes tableFromIPC cannot read: it throws before
\* `this.data = []`.
LoadParseFail(l) ==
    /\ loads[l] = "arrayBuffer"
    /\ loads' = [loads EXCEPT ![l] = "failed"]
    /\ UNCHANGED <<data, spatialIndex, lastQuery, sessVars, uiVars, fvVars, storeVars>>

\* arrayBuffer resolves with a readable table: the rest of load runs without
\* suspending: the rows replace this.data, then buildSpatialIndex().
LoadComplete(l, table) ==
    /\ loads[l] = "arrayBuffer"
    /\ data' = table
    /\ spatialIndex' = Some(buildSpatialIndex(data'))
    /\ loads' = [loads EXCEPT ![l] = "done"]
    /\ UNCHANGED <<lastQuery, sessVars, uiVars, fvVars, storeVars>>

\* A caller runs queryCircle between two steps of the loads.
QueryCircle(centerLat, centerLng, radiusMeters) ==
    /\ lastQuery' = Some([kind |-> "circle", centerLat |-> centerLat,
                          centerLng |-> centerLng, radius |-> radiusMeters,
                          result |-> queryCircle(centerLat, centerLng, radiusMeters)])
    /\ UNCHANGED <<dlVars, sessVars, uiVars, fvVars, storeVars>>

\* RectBounds without the ordering of the corners.
RectBounds_Unordered(startLat, startLng, lat, lng) ==
    [minLat |-> startLat, minLng |-> startLng, maxLat |-> lat, maxLng |-> lng]

\* onEnd, rectangular branch: Math.min / Math.max of the two corners.
RectBounds(startLat, startLng, lat, lng) ==
    [minLat |-> Min(startLat, lat), minLng |-> Min(startLng, lng),
     maxLat |-> Max(startLat, lat), maxLng |-> Max(startLng, lng)]

\* queryRectangle as the end of a rectangle drag from start to end calls it.
QueryRectangle(start, end) ==
    LET b == RectBounds(start.lat, start.lng, end.lat, end.lng)
    IN  /\ lastQuery' = Some([kind |-> "rect", start |-> start, end |-> end,
                              result |-> queryRectangle(b.minLat, b.minLng,
                                                        b.maxLat, b.maxLng)])
        /\ UNCHANGED <<dlVars, sessVars, uiVars, fvVars, storeVars>>


(***************************************************************************)
(* The state of everything but the DataLoader, right after construction.   *)
(***************************************************************************)
DefaultRadiusMeters == 500
InitialSearchRadiusMeters == 888

AllFlatTypes == {"2 ROOM", "3 ROOM", "4 ROOM", "5 ROOM", "EXECUTIVE", "MULTI-GENERATION"}

\* StateStore's constructor, for the keys the handlers use.
AppStateInit ==
    [selectionMode |-> "radial",
     isSelectionModeActive |-> FALSE,
     selectedTransactions |-> Null,
     globalFilters |-> [date |-> "all", flatTypes |-> AllFlatTypes,
                        leaseMin |-> 0, leaseMax |-> 99]]

MapViewInit ==
    [selectionCircle |-> Null, selectionRect |-> Null, selectedTransactions |-> Null,
     filteredData |-> Null, selectionActive |-> FALSE, dragPan |-> TRUE]

PanelInit ==
    [currentTransactions |-> Null, activeTab |-> "overview",
     isSelectionModeActive |-> FALSE, startDrag |-> Null]

IdleSession ==
    /\ radialSelection = RadialSelectionInit
    /\ lastSet = Null

IdleUI ==
    /\ build = "panel"
    /\ mapView = MapViewInit
    /\ isDragging = FALSE
    /\ panel = PanelInit
    /\ appState = AppStateInit
    /\ radiusInput = DefaultRadiusMeters * 10
    /\ pendingSearches = 0
    /\ rendered = [stats |-> {}, fairValue |-> Null]
    /\ committed = [kind |-> "none", over |-> FALSE]

\* The bookkeeping of loadCoefficients before its first call: where the
\* invocation in flight stands, how many were started, how the latest one
\* ended, and whether response.json() has resolved in any of them.
NoCoefLoad == [pc |-> "idle", calls |-> 0, last |-> "none", parsed |-> FALSE]

\* FairValueAnalysis after construction, loadCoefficients not yet called.
IdleFairValue ==
    /\ coefficients = Null
    /\ coefLoad = NoCoefLoad
    /\ lastCall = Null

\* The keys of the StateStore that listeners subscribe to in the model.
StoreKeys == {"selectionMode", "isSelectionModeActive"}

\* StateStore after construction: `listeners` is an empty Map.
IdleStore ==
    /\ listeners = [k \in StoreKeys |-> Null]
    /\ notified = [last |-> Null, live |-> [k \in StoreKeys |-> {}],
                   cancelled |-> [k \in StoreKeys |-> {}]]

(***************************************************************************)
(* SpecLoad: overlapping invocations of load(), with queries in between.   *)
(***************************************************************************)
LoadRows == {Tx(13000, 0, "3 ROOM", 80, 100), Tx(13080, 80, "3 ROOM", 80, 100),
             Tx(13090, 0, "3 ROOM", 80, 100)}
LoadTables == SeqsUpTo(LoadRows, MaxRows)
LoadQueryCenters == {[lat |-> 13000, lng |-> 0], [lat |-> 13080, lng |-> 90]}
LoadQueryRadii == {10000}

InitLoad ==
    /\ data = <<>>
    /\ spatialIndex = Null
    /\ loads = [l \in LoadIds |-> "idle"]
    /\ lastQuery = Null
    /\ IdleSession
    /\ IdleUI
    /\ IdleFairValue
    /\ IdleStore

NextLoad ==
    \/ \E l \in LoadIds : LoadCall(l)
    \/ \E l \in LoadIds : FetchResolve(l)
    \/ \E l \in LoadIds : LoadReject(l)
    \/ \E l \in LoadIds : LoadParseFail(l)
    \/ \E l \in LoadIds, table \in LoadTables : LoadComplete(l, table)
    \/ \E p \in LoadQueryCenters, r \in LoadQueryRadii : QueryCircle(p.lat, p.lng, r)

SpecLoad == InitLoad /\ [][NextLoad]_vars

(***************************************************************************)
(* SpecQuery: the queries as functions of the loaded table.  Init draws    *)
(* the table (or no load at all); the actions run a query.                 *)
(***************************************************************************)
InitQuery ==
    /\ \/ data = <<>> /\ spatialIndex = Null
       \/ \E table \in Tables :
             /\ data = table
             /\ spatialIndex = Some(buildSpatialIndex(table))
    /\ loads = [l \in LoadIds |-> "idle"]
    /\ lastQuery = Null
    /\ IdleSession
    /\ IdleUI
    /\ IdleFairValue
    /\ IdleStore

NextQuery ==
    \/ \E p \in Positions, r \in Radii : QueryCircle(p.lat, p.lng, r)
    \/ \E start \in Positions, end \in Positions : QueryRectangle(start, end)

SpecQuery == InitQuery /\ [][NextQuery]_vars

(***************************************************************************)
(* SpecSession: every sequence of calls of the selection session, over a   *)
(* loaded table (or none).                                                 *)
(***************************************************************************)
SessionTables == {<<>>,
                  <<Tx(13000, 0, "3 ROOM", 80, 100), Tx(13080, 80, "3 ROOM", 80, 100),
                    Tx(13090, 0, "3 ROOM", 80, 100)>>}

SetSelection(centerLat, centerLng, radiusMeters) ==
    /\ radialSelection' = setSelection(radialSelection, centerLat, centerLng, radiusMeters)
    /\ lastSet' = Some([lat |-> centerLat, lng |-> centerLng, radius |-> radiusMeters])
    /\ UNCHANGED <<dlVars, lastQuery, uiVars, fvVars, storeVars>>

ClearSelection ==
    /\ radialSelection' = clearSelection(radialSelection)
    /\ lastSet' = Null
    /\ UNCHANGED <<dlVars, lastQuery, uiVars, fvVars, storeVars>>

GetSelectedTransactions ==
    /\ lastQuery' = Some([kind |-> "selected",
                          result |-> getSelectedTransactions(radialSelection)])
    /\ UNCHANGED <<dlVars, sessVars, uiVars, fvVars, storeVars>>

InitSession ==
    /\ \/ data = <<>> /\ spatialIndex = Null
       \/ \E table \in SessionTables :
             /\ data = table
             /\ spatialIndex = Some(buildSpatialIndex(table))
    /\ loads = [l \in LoadIds |-> "idle"]
    /\ lastQuery = Null
    /\ IdleSession
    /\ IdleUI
    /\ IdleFairValue
    /\ IdleStore

NextSession ==
    \/ \E p \in Positions, r \in Radii : SetSelection(p.lat, p.lng, r)
    \/ ClearSelection
    \/ GetSelectedTransactions

SpecSession == InitSession /\ [][NextSession]_vars

(***************************************************************************)
(* MapView                                                                 *)
(***************************************************************************)
\* updateSelectionCircle that leaves the rectangle in place.
updateSelectionCircle_KeepsRect(mv, centerLat, centerLng, radiusMeters) ==
    [mv EXCEPT !.selectionCircle = Some([lat |-> centerLat, lng |-> centerLng,
                                         radius |-> radiusMeters])]

updateSelectionCircle(mv, centerLat, centerLng, radiusMeters) ==
    [mv EXCEPT !.selectionCircle = Some([lat |-> centerLat, lng |-> centerLng,
                                         radius |-> radiusMeters]),
               !.selectionRect = Null]

updateSelectionRect(mv, startLat, startLng, endLat, endLng) ==
    [mv EXCEPT !.selectionRect = Some([minLat |-> Min(startLat, endLat),
                                       minLng |-> Min(startLng, endLng),
                                       maxLat |-> Max(startLat, endLat),
                                       maxLng |-> Max(startLng, endLng)]),
               !.selectionCircle = Null]

clearSelectionCircle(mv) == [mv EXCEPT !.selectionCircle = Null]

clearSelectionRect(mv) == [mv EXCEPT !.selectionRect = Null]

setSelectedTransactions(mv, transactions) ==
    [mv EXCEPT !.selectedTransactions = transactions]

setFilteredData(mv, transactions) == [mv EXCEPT !.filteredData = Some(transactions)]

\* setSelectionMode that marks the container and leaves dragPan as it is.
mapSetSelectionMode_KeepsDragPan(mv, active) ==
    [mv EXCEPT !.selectionActive = active]

\* MapView.setSelectionMode: the 'selection-active' class and the map's dragPan.
mapSetSelectionMode(mv, active) ==
    [mv EXCEPT !.selectionActive = active, !.dragPan = ~active]

(***************************************************************************)
(* Global filters                                                          *)
(***************************************************************************)
DateWindowDays(date) ==
    CASE date = "6m" -> 180
      [] date = "1y" -> 365
      [] date = "3y" -> 365 * 3
      [] date = "5y" -> 365 * 5

\* The predicate of the filter callbacks.
PassesFilters(t, filters) ==
    /\ t.flat_type \in filters.flatTypes
    /\ ~(t.remaining_lease_years < filters.leaseMin
         \/ t.remaining_lease_years > filters.leaseMax)
    /\ filters.date # "all" => ~(t.age_days > DateWindowDays(filters.date))

applyFiltersToTransactions(transactions, filters) ==
    {i \in transactions : PassesFilters(data[i], filters)}

getGlobalFilteredData(filters) == applyFiltersToTransactions(DOMAIN data, filters)

(***************************************************************************)
(* The panel.  The handlers below are those of a desktop window; in the    *)
(* "cards" build the location controls live in LocationCard and the filter *)
(* controls in FiltersCard.                                                *)
(***************************************************************************)
\* Math.round of a non-negative distance, to whole metres.
RoundMeters(r) == ((r + 5) \div 10) * 10

\* parseInt(radiusInput.value) || 500; radiusInput = 0 stands for every text
\* that parses to NaN or 0.
ParsedRadiusOrDefault(v) == IF v = 0 THEN DefaultRadiusMeters * 10 ELSE v

\* renderStats of AnalyticsPanel.ts: transactions ?? getAllData().
PanelStatsOf(transactions) ==
    IF IsNull(transactions) THEN DOMAIN data ELSE Val(transactions)

\* Is a selection-derived set or an active session in use?
SelectionInUse ==
    \/ radialSelection.isActive
    \/ ~IsNull(panel.currentTransactions)
    \/ ~IsNull(mapView.selectedTransactions)

\* updateSelectionState that keeps the panel's current transactions.
updateSelectionState_KeepsCurrent(selected, mv, pn) ==
    LET filteredSelection ==
            IF IsNull(selected) THEN Null
            ELSE Some(applyFiltersToTransactions(Val(selected), appState.globalFilters))
        dataToRender ==
            IF IsNull(filteredSelection) THEN getGlobalFilteredData(appState.globalFilters)
            ELSE Val(filteredSelection)
    IN  /\ panel' = pn
        /\ mapView' = setSelectedTransactions(mv, filteredSelection)
        /\ rendered' = [stats |-> dataToRender,
                        fairValue |-> IF pn.activeTab = "fairvalue"
                                      THEN Some(dataToRender) ELSE rendered.fairValue]

\* AnalyticsPanel.updateSelectionState, applied to the map and panel records
\* the handler has produced so far.
updateSelectionState(selected, mv, pn) ==
    LET filteredSelection ==
            IF IsNull(selected) THEN Null
            ELSE Some(applyFiltersToTransactions(Val(selected), appState.globalFilters))
        dataToRender ==
            IF IsNull(filteredSelection) THEN getGlobalFilteredData(appState.globalFilters)
            ELSE Val(filteredSelection)
    IN  /\ panel' = [pn EXCEPT !.currentTransactions = filteredSelection]
        /\ mapView' = setSelectedTransactions(mv, filteredSelection)
        /\ rendered' = [stats |-> dataToRender,
                        fairValue |-> IF pn.activeTab = "fairvalue"
                                      THEN Some(dataToRender) ELSE rendered.fairValue]

\* The part of the state no handler of the panel writes.
uiFrame == <<dlVars, lastQuery, lastSet, build, fvVars, storeVars>>

\* Click on the search button (or Enter) with a query of three characters or
\* more: performSearch runs up to its await.
ClickSearch ==
    /\ pendingSearches < MaxPending
    /\ pendingSearches' = pendingSearches + 1
    /\ UNCHANGED <<uiFrame, radialSelection, mapView, isDragging, panel, appState,
                   radiusInput, rendered, committed>>

\* performSearch from its await to its end, with the value PostalSearch.search
\* settled with: a location, or null.
performSearchResume(result) ==
    IF ~IsNull(result) /\ appState.selectionMode = "radial"
    THEN LET lat == Val(result).lat
             lng == Val(result).lng
             radius == ParsedRadiusOrDefault(radiusInput)
             rs == setSelection(radialSelection, lat, lng, radius)
         IN  /\ radialSelection' = rs
             /\ updateSelectionState(getSelectedTransactions(rs),
                                     updateSelectionCircle(mapView, lat, lng, radius),
                                     panel)
             /\ committed' = [kind |-> "search", over |-> FALSE]
    ELSE UNCHANGED <<radialSelection, mapView, panel, rendered, committed>>

\* PostalSearch.search settles with a location or with null; performSearch
\* runs from its await to its end.
SearchResolve(result) ==
    /\ pendingSearches > 0
    /\ pendingSearches' = pendingSearches - 1
    /\ performSearchResume(result)
    /\ UNCHANGED <<uiFrame, isDragging, appState, radiusInput>>

\* setSelectionMode of the panel (AnalyticsPanel.ts) or of LocationCard.
setSelectionMode(active, mv, pn, as) ==
    /\ panel' = [pn EXCEPT !.isSelectionModeActive = active]
    /\ appState' = IF build = "cards"
                   THEN [as EXCEPT !.isSelectionModeActive = active] ELSE as
    /\ mapView' = mapSetSelectionMode(mv, active)

\* The click handler of a mode button (Circle / Box).
modeButtonClick(mode) ==
    IF panel.isSelectionModeActive
    THEN setSelectionMode(FALSE, mapView, panel,
                          [appState EXCEPT !.selectionMode = mode])
    ELSE /\ appState' = [appState EXCEPT !.selectionMode = mode]
         /\ UNCHANGED <<mapView, panel>>

\* Click on a mode button (Circle / Box).
ModeButton(mode) ==
    /\ modeButtonClick(mode)
    /\ UNCHANGED <<uiFrame, radialSelection, isDragging, radiusInput,
                   pendingSearches, rendered, committed>>

\* Click on the select-area button.
ClickSelectArea ==
    /\ setSelectionMode(~panel.isSelectionModeActive, mapView, panel, appState)
    /\ UNCHANGED <<uiFrame, radialSelection, isDragging, radiusInput,
                   pendingSearches, rendered, committed>>

\* The guard of the radius change handler.
RadiusEditApplies_AnyValue(val, rs) == hasSelection(rs)

RadiusEditApplies(val, rs) == val > 0 /\ hasSelection(rs)

\* The change event of #radius-input, after the user has entered val.  The
\* input is displayed in radial mode only.
RadiusInputChange(val) ==
    /\ appState.selectionMode = "radial"
    /\ radiusInput' = val
    /\ LET current == getCurrentCenter(radialSelection)
       IN  IF RadiusEditApplies(val, radialSelection) /\ ~IsNull(current)
           THEN LET c == Val(current)
                    mv == updateSelectionCircle(mapView, c.lat, c.lng, val)
                    rs == setSelection(radialSelection, c.lat, c.lng, val)
                    selected == getSelectedTransactions(rs)
                IN  /\ radialSelection' = rs
                    /\ IF build = "panel"
                       THEN /\ updateSelectionState(selected, mv, panel)
                            /\ UNCHANGED appState
                       ELSE /\ appState' = [appState EXCEPT
                                               !.selectedTransactions = selected]
                            /\ mapView' = mv
                            /\ UNCHANGED <<panel, rendered>>
                    /\ committed' = [kind |-> "edit", over |-> FALSE]
           ELSE UNCHANGED <<radialSelection, mapView, panel, appState, rendered,
                            committed>>
    /\ UNCHANGED <<uiFrame, isDragging, pendingSearches>>

\* The click handler of the clear button.
clearButtonClick ==
    /\ radialSelection' = clearSelection(radialSelection)
    /\ updateSelectionState(Null,
           clearSelectionRect(clearSelectionCircle(
               setSelectedTransactions(mapView, Null))),
           panel)
    /\ committed' = [kind |-> "clear", over |-> SelectionInUse]

\* Click on the clear button.
ClickClear ==
    /\ clearButtonClick
    /\ UNCHANGED <<uiFrame, isDragging, appState, radiusInput, pendingSearches>>

\* The filter controls as read by applyGlobalFilters: parseInt(min) || 0 and
\* parseInt(max) || 99, where 0 stands for every text that parses to NaN or 0.
GatherFilters(inputs) ==
    [date |-> inputs.date, flatTypes |-> inputs.flatTypes,
     leaseMin |-> inputs.leaseMin,
     leaseMax |-> IF inputs.leaseMax = 0 THEN 99 ELSE inputs.leaseMax]

\* Click on the apply-filters button: applyGlobalFilters, and in the "cards"
\* build its callback onFiltersApplied.
ApplyFilters(inputs) ==
    LET filters == GatherFilters(inputs)
        filtered == getGlobalFilteredData(filters)
    IN  /\ appState' = [appState EXCEPT !.globalFilters = filters]
        /\ mapView' = clearSelectionRect(clearSelectionCircle(
                          setFilteredData(mapView, filtered)))
        /\ radialSelection' = clearSelection(radialSelection)
        /\ rendered' = [rendered EXCEPT !.stats = filtered]
        /\ committed' = [kind |-> "filters", over |-> SelectionInUse]
        /\ UNCHANGED <<uiFrame, isDragging, panel, radiusInput, pendingSearches>>

\* Click on a tab button.
TabClick(tab) ==
    /\ panel' = [panel EXCEPT !.activeTab = tab]
    /\ rendered' =
          IF tab = "fairvalue"
          THEN [rendered EXCEPT !.fairValue =
                   Some(IF ~IsNull(panel.currentTransactions)
                        THEN Val(panel.currentTransactions)
                        ELSE getGlobalFilteredData(appState.globalFilters))]
          ELSE rendered
    /\ UNCHANGED <<uiFrame, radialSelection, mapView, isDragging, appState,
                   radiusInput, pendingSearches, committed>>

\* The mousedown listener of setOnDragSelection with the onStart callback:
\* nothing happens unless the container is selection-active.
mousedown(p) ==
    /\ mapView.selectionActive
    /\ isDragging' = TRUE
    /\ panel' = [panel EXCEPT !.startDrag = Some(p)]
    /\ mapView' = LET mv == [mapView EXCEPT !.dragPan = FALSE]
                  IN  IF appState.selectionMode = "radial"
                      THEN updateSelectionCircle(mv, p.lat, p.lng, 0)
                      ELSE mv
    /\ UNCHANGED <<radialSelection, appState, radiusInput, pendingSearches,
                   rendered, committed>>

\* mousedown on the map.
MouseDown(p) == mousedown(p) /\ UNCHANGED uiFrame

\* The mousemove listener of setOnDragSelection with the onMove callback.
mousemove(p) ==
    /\ isDragging
    /\ mapView' =
          IF IsNull(panel.startDrag) THEN mapView
          ELSE LET s == Val(panel.startDrag)
               IN  IF appState.selectionMode = "radial"
                   THEN updateSelectionCircle(mapView, s.lat, s.lng,
                            haversineDistance(s.lat, s.lng, p.lat, p.lng))
                   ELSE updateSelectionRect(mapView, s.lat, s.lng, p.lat, p.lng)
    /\ UNCHANGED <<radialSelection, isDragging, panel, appState, radiusInput,
                   pendingSearches, rendered, committed>>

\* mousemove on the map while dragging.
MouseMove(p) == mousemove(p) /\ UNCHANGED uiFrame

\* endDrag, the mouseup listener of setOnDragSelection, with the onEnd
\* callback.
endDrag(p) ==
    /\ isDragging
    /\ isDragging' = FALSE
    /\ IF IsNull(panel.startDrag)
       THEN UNCHANGED <<radialSelection, mapView, panel, appState, radiusInput,
                        rendered, committed>>
       ELSE LET s == Val(panel.startDrag)
                radial == appState.selectionMode = "radial"
                radius == haversineDistance(s.lat, s.lng, p.lat, p.lng)
                b == RectBounds(s.lat, s.lng, p.lat, p.lng)
                rs == IF radial THEN setSelection(radialSelection, s.lat, s.lng, radius)
                      ELSE radialSelection
                selected ==
                    IF radial THEN getSelectedTransactions(rs)
                    ELSE Some(queryRectangle(b.minLat, b.minLng, b.maxLat, b.maxLng))
            IN  /\ radialSelection' = rs
                /\ radiusInput' = IF radial THEN RoundMeters(radius) ELSE radiusInput
                /\ committed' = [kind |-> appState.selectionMode, over |-> FALSE]
                /\ IF build = "panel"
                   THEN LET mv == IF radial THEN mapView
                                  ELSE updateSelectionRect(mapView, s.lat, s.lng,
                                                           p.lat, p.lng)
                        IN  /\ panel' = [panel EXCEPT
                                            !.currentTransactions = selected,
                                            !.isSelectionModeActive = FALSE,
                                            !.startDrag = Null]
                            /\ mapView' = mapSetSelectionMode(
                                              setSelectedTransactions(mv, selected),
                                              FALSE)
                            /\ rendered' =
                                  [stats |-> PanelStatsOf(selected),
                                   fairValue |->
                                      IF panel.activeTab = "fairvalue"
                                         /\ ~IsNull(selected)
                                      THEN selected ELSE rendered.fairValue]
                            /\ UNCHANGED appState
                   ELSE /\ updateSelectionState(selected,
                               mapSetSelectionMode(mapView, FALSE),
                               [panel EXCEPT !.isSelectionModeActive = FALSE])
                        /\ appState' = [appState EXCEPT
                                           !.isSelectionModeActive = FALSE]
    /\ UNCHANGED pendingSearches

\* mouseup on the map while dragging.
MouseUp(p) == endDrag(p) /\ UNCHANGED uiFrame

(***************************************************************************)
(* Spec: the panel in a desktop window over a loaded table.                *)
(***************************************************************************)
UITable == <<Tx(13000, 0, "3 ROOM", 80, 100), Tx(13080, 80, "4 ROOM", 55, 400),
             Tx(13090, 0, "3 ROOM", 80, 100)>>
DragStarts == {[lat |-> 13000, lng |-> 0]}
DragPoints == {[lat |-> 13000, lng |-> 0], [lat |-> 13090, lng |-> 90]}
SearchResults == {Null, Some([lat |-> 13000, lng |-> 0])}
RadiusEdits == {0, 10010}
FilterInputs ==
    {[date |-> "all", flatTypes |-> AllFlatTypes, leaseMin |-> 0, leaseMax |-> 0],
     [date |-> "1y", flatTypes |-> {"3 ROOM", "4 ROOM"}, leaseMin |-> 50,
      leaseMax |-> 0]}
Tabs == {"overview", "fairvalue"}
Modes == {"radial", "rect"}

\* main has awaited load() and built the panel; render() has drawn the
\* statistics of all data and bindSearchEvents has started the initial search.
Init ==
    /\ data = UITable
    /\ spatialIndex = Some(buildSpatialIndex(UITable))
    /\ loads = [l \in LoadIds |-> IF l = 1 THEN "done" ELSE "idle"]
    /\ lastQuery = Null
    /\ IdleSession
    /\ build \in {"panel", "cards"}
    /\ mapView = MapViewInit
    /\ isDragging = FALSE
    /\ panel = PanelInit
    /\ appState = AppStateInit
    /\ radiusInput = InitialSearchRadiusMeters * 10
    /\ pendingSearches = 1
    /\ rendered = [stats |-> DOMAIN UITable, fairValue |-> Null]
    /\ committed = [kind |-> "none", over |-> FALSE]
    /\ IdleFairValue
    /\ IdleStore

Next ==
    \/ ClickSearch
    \/ \E result \in SearchResults : SearchResolve(result)
    \/ \E mode \in Modes : ModeButton(mode)
    \/ ClickSelectArea
    \/ \E val \in RadiusEdits : RadiusInputChange(val)
    \/ ClickClear
    \/ \E inputs \in FilterInputs : ApplyFilters(inputs)
    \/ \E tab \in Tabs : TabClick(tab)
    \/ \E p \in DragStarts : MouseDown(p)
    \/ \E p \in DragPoints : MouseMove(p)
    \/ \E p \in DragPoints : MouseUp(p)

Spec == Init /\ [][Next]_vars

(***************************************************************************)
(* Properties of the queries and of load().                                *)
(***************************************************************************)
DistanceTo(q, i) ==
    haversineDistance(q.centerLat, q.centerLng, data[i].latitude, data[i].longitude)

\* C6: every transaction queryCircle(center, r) returns lies at haversine
\* distance <= r from the center; no point of the box's corners is returned.
C6_CircleResultWithinRadius ==
    (~IsNull(lastQuery) /\ Val(lastQuery).kind = "circle") =>
        \A i \in Val(lastQuery).result :
            /\ i \in DOMAIN data
            /\ DistanceTo(Val(lastQuery), i) <= Val(lastQuery).radius

\* A query whose box holds a point beyond the radius, and that returned some
\* transaction and left that point out.
C6_Witness ==
    /\ ~IsNull(lastQuery) /\ Val(lastQuery).kind = "circle"
    /\ ~IsNull(spatialIndex)
    /\ Val(lastQuery).result # {}
    /\ \E it \in RBushSearch(Val(spatialIndex),
                             CircleBBox(Val(lastQuery).centerLat, Val(lastQuery).centerLng,
                                        Val(lastQuery).radius)) :
           /\ it.index \notin Val(lastQuery).result
           /\ DistanceTo(Val(lastQuery), it.index) > Val(lastQuery).radius

\* C7: queryCircle returns every loaded transaction whose haversine distance
\* from the center is <= r: its result is that of a scan of all transactions.
C7_CircleResultIsBruteForce ==
    (~IsNull(lastQuery) /\ Val(lastQuery).kind = "circle") =>
        Val(lastQuery).result =
            {i \in DOMAIN data : DistanceTo(Val(lastQuery), i) <= Val(lastQuery).radius}

\* A query that returned a transaction in the last 0.2 % of the radius, which
\* a box of r / 111195 degrees would still hold and a smaller one would not.
C7_Witness ==
    /\ ~IsNull(lastQuery) /\ Val(lastQuery).kind = "circle"
    /\ \E i \in Val(lastQuery).result :
          /\ DistanceTo(Val(lastQuery), i) * 1000 >= Val(lastQuery).radius * 998
          /\ Val(lastQuery).radius > 0
    /\ \E j \in DOMAIN data : j \notin Val(lastQuery).result

\* C8: for a fixed center and table, every transaction returned for r1 is
\* returned for every r2 >= r1.
C8_CircleMonotoneInRadius ==
    (~IsNull(lastQuery) /\ Val(lastQuery).kind = "circle") =>
        \A r2 \in Radii :
            Val(lastQuery).radius <= r2 =>
                Val(lastQuery).result \subseteq
                    queryCircle(Val(lastQuery).centerLat, Val(lastQuery).centerLng, r2)

\* A query that returned something, where a larger radius returns strictly more.
C8_Witness ==
    /\ ~IsNull(lastQuery) /\ Val(lastQuery).kind = "circle"
    /\ Val(lastQuery).result # {}
    /\ \E r2 \in Radii :
          /\ Val(lastQuery).radius < r2
          /\ queryCircle(Val(lastQuery).centerLat, Val(lastQuery).centerLng, r2)
                # Val(lastQuery).result

\* C10: in every state (a query can run in each) the index is absent with no
\* transactions loaded, or holds exactly one entry per transaction of the
\* current array, entry i carrying the coordinates of transaction i.
C10_IndexMatchesData ==
    IF IsNull(spatialIndex) THEN data = <<>>
    ELSE /\ Cardinality(Val(spatialIndex)) = Len(data)
         /\ \A i \in DOMAIN data :
               \E it \in Val(spatialIndex) :
                  /\ it.index = i
                  /\ it.minX = data[i].longitude /\ it.maxX = data[i].longitude
                  /\ it.minY = data[i].latitude /\ it.maxY = data[i].latitude

\* Two invocations of load() have completed (the later one was a reload), a
\* third step is in between: a full table is loaded.
C10_Witness ==
    /\ \A l \in LoadIds : loads[l] = "done"
    /\ Len(data) = MaxRows
    /\ ~IsNull(lastQuery) /\ Val(lastQuery).result = {}
    /\ \E i \in DOMAIN data :
          DistanceTo(Val(lastQuery), i) <= Val(lastQuery).radius

C1_SelectedIsQueryOfLastSet ==
    getSelectedTransactions(radialSelection) =
        IF IsNull(lastSet) THEN Null
        ELSE Some(queryCircle(Val(lastSet).lat, Val(lastSet).lng, Val(lastSet).radius))

\* A selection was set over another one with a different radius, and the
\* session was asked for its transactions and returned some.
C1_Witness ==
    /\ ~IsNull(lastSet)
    /\ ~IsNull(lastQuery) /\ Val(lastQuery).kind = "selected"
    /\ ~IsNull(Val(lastQuery).result)
    /\ Val(Val(lastQuery).result) # {}
    /\ Val(Val(lastQuery).result) # Val(getSelectedTransactions(radialSelection))

(***************************************************************************)
(* Properties of the panel.                                                *)
(***************************************************************************)
\* C2: while a committed rectangle is the current selection, the selection
\* session holds no circle as active, so that a radius edit cannot act on a
\* circle the rectangle has replaced.
C2_RectangleReplacesCircle ==
    committed.kind = "rect" => ~radialSelection.isActive

\* The selection-derived state is gone: the session is idle, the map has no
\* overlay and no highlighted set, the panel has no current transactions.
NoSelectionLeft ==
    /\ ~radialSelection.isActive
    /\ IsNull(getSelectedTransactions(radialSelection))
    /\ IsNull(mapView.selectionCircle)
    /\ IsNull(mapView.selectionRect)
    /\ IsNull(mapView.selectedTransactions)
    /\ IsNull(panel.currentTransactions)

\* C3: every application of the global filters leaves the session idle, no
\* overlay, and neither the panel's current transactions nor the map's
\* highlighted set; and a switch to the fair-value tab while the filters are
\* the last thing that touched the selection renders the globally filtered
\* data.
C3_FiltersDestroySelection ==
    [][/\ (\E inputs \in FilterInputs : ApplyFilters(inputs)) => NoSelectionLeft'
       /\ (committed.kind = "filters" /\ TabClick("fairvalue")) =>
              rendered'.fairValue =
                  Some(getGlobalFilteredData(appState.globalFilters))]_vars

\* C4: every click on Clear leaves the session without a selection, the map
\* without circle, rectangle and highlighted set, the panel without current
\* transactions, and the statistics rendered from the globally filtered data.
C4_ClearReturnsToIdle ==
    [][ClickClear =>
          /\ NoSelectionLeft'
          /\ rendered'.stats = getGlobalFilteredData(appState'.globalFilters)]_vars

\* Clear was pressed while a selection was in use and narrower filters than
\* the default ones were applied, and the panel is idle.
C4_Witness ==
    /\ committed = [kind |-> "clear", over |-> TRUE]
    /\ NoSelectionLeft
    /\ rendered.stats = getGlobalFilteredData(appState.globalFilters)
    /\ rendered.stats # DOMAIN data

\* C5: a change of the radius input to val, while the session has a selection
\* and val is positive, keeps the center, stores val as the radius and
\* publishes queryCircle(center, val) as the selected transactions; in every
\* other case it leaves the session, the overlays, the highlighted set and the
\* published transactions as they were.
C5_RadiusEditKeepsCenter ==
    [][\A val \in RadiusEdits :
          RadiusInputChange(val) =>
             IF val > 0 /\ radialSelection.isActive
             THEN LET selected == queryCircle(Val(radialSelection.centerLat),
                                              Val(radialSelection.centerLng), val)
                  IN  /\ radialSelection' =
                              [radialSelection EXCEPT !.radiusMeters = val]
                      /\ getSelectedTransactions(radialSelection') = Some(selected)
                      /\ build = "panel" =>
                             panel'.currentTransactions =
                                 Some(applyFiltersToTransactions(
                                          selected, appState.globalFilters))
                      /\ build = "cards" =>
                             appState'.selectedTransactions = Some(selected)
             ELSE /\ radialSelection' = radialSelection
                  /\ mapView' = mapView
                  /\ panel' = panel
                  /\ appState' = appState]_vars

\* A radius edit was applied to the circle of a search, around the same center,
\* and changed the selected transactions.
C5_Witness ==
    /\ committed.kind = "edit"
    /\ radialSelection.isActive
    /\ radialSelection.radiusMeters = 10010
    /\ radiusInput = 10010
    /\ getSelectedTransactions(radialSelection) = Some({1, 3})
    /\ getSelectedTransactions(radialSelection) # Some(DOMAIN data)

(***************************************************************************)
(* SpecIngest: the row conversion of load() over tables whose coordinate   *)
(* cells may be NaN or missing.  A cell is a number, NaN or undefined      *)
(* (what get(i) gives for a null cell or a missing column).                *)
(***************************************************************************)
Num(v) == [kind |-> "number", v |-> v]
NaN == [kind |-> "NaN", v |-> 0]
Undefined == [kind |-> "undefined", v |-> 0]

\* Number.isFinite on a cell.
IsFinite(c) == c.kind = "number"

\* cell ?? fallback
Coalesce(c, fallback) == IF c.kind = "undefined" THEN fallback ELSE c

\* The object load() pushes for one row of the table.
ConvertRow(raw) ==
    [latitude |-> Coalesce(raw.latitude, Num(0)),
     longitude |-> Coalesce(raw.longitude, Num(0)),
     price_index |-> Coalesce(raw.price_index, Num(100))]

RawLatitudes == {Num(13000), Num(13080), NaN, Undefined}
RawLongitudes == {Num(0), NaN, Undefined}
RawRows == {[latitude |-> lat, longitude |-> lng, price_index |-> Undefined] :
               lat \in RawLatitudes, lng \in RawLongitudes}
RawTables == SeqsUpTo(RawRows, MaxRows)

\* load() from its last await to its end, over a table given cell by cell.
Ingest(raw) ==
    /\ data' = [i \in 1 .. Len(raw) |-> ConvertRow(raw[i])]
    /\ spatialIndex' = Some(buildSpatialIndex(data'))
    /\ lastCall' = Some([kind |-> "load", raw |-> raw])
    /\ UNCHANGED <<loads, lastQuery, sessVars, uiVars, coefficients, coefLoad,
                   storeVars>>

InitIngest ==
    /\ data = <<>>
    /\ spatialIndex = Null
    /\ loads = [l \in LoadIds |-> "idle"]
    /\ lastQuery = Null
    /\ IdleSession
    /\ IdleUI
    /\ IdleFairValue
    /\ IdleStore

NextIngest == \E raw \in RawTables : Ingest(raw)

SpecIngest == InitIngest /\ [][NextIngest]_vars

\* C11: after a load, the index has no entry for a row whose latitude or
\* longitude cell was NaN or undefined, and every entry's box is finite.
C11_MalformedRowsNotIndexed ==
    (~IsNull(lastCall) /\ Val(lastCall).kind = "load" /\ ~IsNull(spatialIndex)) =>
        \A item \in Val(spatialIndex) :
            /\ IsFinite(item.minX) /\ IsFinite(item.minY)
            /\ IsFinite(item.maxX) /\ IsFinite(item.maxY)
            /\ IsFinite(Val(lastCall).raw[item.index].latitude)
            /\ IsFinite(Val(lastCall).raw[item.index].longitude)

(***************************************************************************)
(* FairValueAnalysis                                                       *)
(*                                                                         *)
(* Numbers.  A result is an exact fraction num/den with den > 0, NaN, or a *)
(* thrown TypeError.  Coefficients are in units of 1e-3, the MRT distance  *)
(* in km is in units of 1e-3 km, the exponent of predictPricePsm in units  *)
(* of 1e-6; Math.exp(x) is kept as the term Exp(x).  A field that a        *)
(* document or a transaction may lack is nullable.                         *)
(***************************************************************************)
Frac(n, d) == [kind |-> "number", num |-> n, den |-> d]
NaNResult == [kind |-> "NaN", num |-> 0, den |-> 1]
Throws == [kind |-> "throw", num |-> 0, den |-> 1]
Exp(x) == [kind |-> "exp", num |-> x, den |-> 1]

FracEq(a, b) == a.kind = "number" /\ b.kind = "number" /\ a.num * b.den = b.num * a.den
FracLess(a, b) == a.kind = "number" /\ b.kind = "number" /\ a.num * b.den < b.num * a.den

\* FairValueAnalysis.isReady
isReady(coef) == ~IsNull(coef)

\* getFlatTypeEncoded with `?? 3` left out: the fallback only without a model.
getFlatTypeEncoded_NoFallback(coef, flatType) ==
    IF IsNull(coef) THEN Frac(3, 1)
    ELSE IF IsNull(Val(coef).flat_type_mapping) THEN Throws
    ELSE LET mapping == Val(Val(coef).flat_type_mapping)
             keys == {k \in DOMAIN mapping : mapping[k] = flatType}
         IN  IF keys = {} THEN NaNResult
             ELSE Frac(CHOOSE k \in keys : \A j \in keys : j <= k, 1)

\* FairValueAnalysis.getFlatTypeEncoded.  flat_type_mapping is a function
\* from the ordinal (parseInt of the key) to the name; Object.entries lists
\* integer keys in ascending order, so the largest key of a name wins.
getFlatTypeEncoded(coef, flatType) ==
    IF IsNull(coef) THEN Frac(3, 1)
    ELSE IF IsNull(Val(coef).flat_type_mapping) THEN Throws
    ELSE LET mapping == Val(Val(coef).flat_type_mapping)
             keys == {k \in DOMAIN mapping : mapping[k] = flatType}
         IN  IF keys = {} THEN Frac(3, 1)
             ELSE Frac(CHOOSE k \in keys : \A j \in keys : j <= k, 1)

\* getAdjustedPricePsf that divides the transaction's index by the latest one.
getAdjustedPricePsf_Inverted(coef, transaction) ==
    IF IsNull(coef) THEN Frac(transaction.price_psf, 1)
    ELSE LET latestIndex == Val(coef).latest_price_index
             transactionIndex == IF IsNull(transaction.price_index) THEN 100
                                 ELSE Val(transaction.price_index)
         IN  IF IsNull(latestIndex) THEN NaNResult
             ELSE Frac(transaction.price_psf * transactionIndex, Val(latestIndex))

\* getAdjustedPricePsf with the sign of the product reversed.
getAdjustedPricePsf_Negated(coef, transaction) ==
    IF IsNull(coef) THEN Frac(transaction.price_psf, 1)
    ELSE LET latestIndex == Val(coef).latest_price_index
             transactionIndex == IF IsNull(transaction.price_index) THEN 100
                                 ELSE Val(transaction.price_index)
         IN  IF IsNull(latestIndex) THEN NaNResult
             ELSE Frac(0 - transaction.price_psf * Val(latestIndex), transactionIndex)

\* getAdjustedPricePsf that adjusts although no coefficients are loaded.
getAdjustedPricePsf_NoGuard(coef, transaction) ==
    LET transactionIndex == IF IsNull(transaction.price_index) THEN 100
                            ELSE Val(transaction.price_index)
    IN  IF IsNull(coef) THEN Frac(transaction.price_psf * 100, transactionIndex)
        ELSE IF IsNull(Val(coef).latest_price_index) THEN NaNResult
        ELSE Frac(transaction.price_psf * Val(Val(coef).latest_price_index),
                  transactionIndex)

\* FairValueAnalysis.getAdjustedPricePsf: price_psf * (latestIndex /
\* transactionIndex); an undefined latest index makes the quotient NaN.
getAdjustedPricePsf(coef, transaction) ==
    IF IsNull(coef) THEN Frac(transaction.price_psf, 1)
    ELSE LET latestIndex == Val(coef).latest_price_index
             transactionIndex == IF IsNull(transaction.price_index) THEN 100
                                 ELSE Val(transaction.price_index)
         IN  IF IsNull(latestIndex) THEN NaNResult
             ELSE Frac(transaction.price_psf * Val(latestIndex), transactionIndex)

\* FairValueAnalysis.predictPricePsm
predictPricePsm(coef, storeyMidpoint, remainingLeaseYears, mrtDistanceKm, floorAreaSqm, flatType) ==
    IF IsNull(coef) THEN Frac(0, 1)
    ELSE LET flatTypeEncoded == getFlatTypeEncoded(coef, flatType)
         IN  IF flatTypeEncoded.kind = "throw" \/ IsNull(Val(coef).features)
             THEN Throws
             ELSE IF IsNull(Val(coef).intercept) \/ flatTypeEncoded.kind = "NaN"
             THEN Exp(NaNResult)
             ELSE LET c == Val(Val(coef).features)
                  IN  Exp(Val(Val(coef).intercept) * 1000
                          + c.storey_midpoint * storeyMidpoint * 1000
                          + c.remaining_lease_years * remainingLeaseYears * 1000
                          + c.mrt_distance_km * mrtDistanceKm
                          + c.floor_area_sqm * floorAreaSqm * 1000
                          + c.flat_type_encoded * flatTypeEncoded.num * 1000)

\* One element of the list getFactorImpacts returns; percentImpact is
\* (Exp(exponent) - 1) * 100.
FactorImpact(feature, value, coefficient, mean, comparedToMean) ==
    [feature |-> feature, value |-> value,
     exponent |-> coefficient * (value - mean),
     comparedToMean |-> comparedToMean]

\* getFactorImpacts with the MRT label compared like the other three.
getFactorImpacts_SameSense(coef, transaction) ==
    IF IsNull(coef) THEN <<>>
    ELSE IF IsNull(Val(coef).features) \/ IsNull(Val(coef).summary_stats) THEN Throws
    ELSE LET c == Val(Val(coef).features)
             stats == Val(Val(coef).summary_stats)
             storeyMidpoint == IF IsNull(transaction.storey_midpoint) THEN 8
                               ELSE Val(transaction.storey_midpoint)
             mrtDistanceKm == IF IsNull(transaction.mrt_distance_m) THEN 500
                              ELSE Val(transaction.mrt_distance_m)
         IN  << FactorImpact("storey_midpoint", storeyMidpoint, c.storey_midpoint,
                    stats.storey_midpoint.mean,
                    IF storeyMidpoint > stats.storey_midpoint.mean
                    THEN "above average" ELSE "below average"),
                FactorImpact("remaining_lease_years",
                    transaction.remaining_lease_years, c.remaining_lease_years,
                    stats.remaining_lease_years.mean,
                    IF transaction.remaining_lease_years
                          > stats.remaining_lease_years.mean
                    THEN "above average" ELSE "below average"),
                FactorImpact("mrt_distance_km", mrtDistanceKm, c.mrt_distance_km,
                    stats.mrt_distance_km.mean,
                    IF mrtDistanceKm > stats.mrt_distance_km.mean
                    THEN "closer than average" ELSE "farther than average"),
                FactorImpact("floor_area_sqm", transaction.floor_area_sqm,
                    c.floor_area_sqm, stats.floor_area_sqm.mean,
                    IF transaction.floor_area_sqm > stats.floor_area_sqm.mean
                    THEN "larger than average" ELSE "smaller than average") >>

\* FairValueAnalysis.getFactorImpacts.  mrt_distance_m / 1000 in units of
\* 1e-3 km is mrt_distance_m.
getFactorImpacts(coef, transaction) ==
    IF IsNull(coef) THEN <<>>
    ELSE IF IsNull(Val(coef).features) \/ IsNull(Val(coef).summary_stats) THEN Throws
    ELSE LET c == Val(Val(coef).features)
             stats == Val(Val(coef).summary_stats)
             storeyMidpoint == IF IsNull(transaction.storey_midpoint) THEN 8
                               ELSE Val(transaction.storey_midpoint)
             mrtDistanceKm == IF IsNull(transaction.mrt_distance_m) THEN 500
                              ELSE Val(transaction.mrt_distance_m)
         IN  << FactorImpact("storey_midpoint", storeyMidpoint, c.storey_midpoint,
                    stats.storey_midpoint.mean,
                    IF storeyMidpoint > stats.storey_midpoint.mean
                    THEN "above average" ELSE "below average"),
                FactorImpact("remaining_lease_years",
                    transaction.remaining_lease_years, c.remaining_lease_years,
                    stats.remaining_lease_years.mean,
                    IF transaction.remaining_lease_years
                          > stats.remaining_lease_years.mean
                    THEN "above average" ELSE "below average"),
                FactorImpact("mrt_distance_km", mrtDistanceKm, c.mrt_distance_km,
                    stats.mrt_distance_km.mean,
                    IF mrtDistanceKm < stats.mrt_distance_km.mean
                    THEN "closer than average" ELSE "farther than average"),
                FactorImpact("floor_area_sqm", transaction.floor_area_sqm,
                    c.floor_area_sqm, stats.floor_area_sqm.mean,
                    IF transaction.floor_area_sqm > stats.floor_area_sqm.mean
                    THEN "larger than average" ELSE "smaller than average") >>

(***************************************************************************)
(* Fixture of the coefficient documents and of the transactions handed to  *)
(* FairValueAnalysis.                                                      *)
(***************************************************************************)
MaxCoefLoads == 2

\* The document of FairValueAnalysis.test.ts.
MockCoefficients ==
    [intercept |-> Some(8500),
     features |-> Some([storey_midpoint |-> 10, remaining_lease_years |-> 5,
                        mrt_distance_km |-> 0 - 50, floor_area_sqm |-> 8,
                        flat_type_encoded |-> 20]),
     flat_type_mapping |-> Some([k \in 0 .. 4 |->
         <<"2 ROOM", "3 ROOM", "4 ROOM", "5 ROOM", "EXECUTIVE">>[k + 1]]),
     latest_price_index |-> Some(180),
     summary_stats |-> Some([storey_midpoint |-> [mean |-> 8],
                             remaining_lease_years |-> [mean |-> 75],
                             mrt_distance_km |-> [mean |-> 500],
                             floor_area_sqm |-> [mean |-> 90]])]

\* A second complete document, with another reference index and a mapping
\* that names seven flat types.
LaterCoefficients ==
    [MockCoefficients EXCEPT
        !.latest_price_index = Some(200),
        !.flat_type_mapping = Some([k \in 0 .. 6 |->
            <<"1 ROOM", "2 ROOM", "3 ROOM", "4 ROOM", "5 ROOM", "EXECUTIVE",
              "MULTI-GENERATION">>[k + 1]])]

WellFormedDocuments == {MockCoefficients, LaterCoefficients}

\* Documents that parse as JSON objects but lack required fields.
IncompleteDocuments ==
    {[MockCoefficients EXCEPT !.features = Null],
     [MockCoefficients EXCEPT !.latest_price_index = Null],
     [MockCoefficients EXCEPT !.flat_type_mapping = Null, !.summary_stats = Null]}

\* What response.json() can resolve with: the JSON literal null or an object.
ResponseBodies ==
    {Null} \cup {Some(d) : d \in WellFormedDocuments \cup IncompleteDocuments}

WellFormed(coef) == ~IsNull(coef) /\ Val(coef) \in WellFormedDocuments

FVTx(price, index, storey, mrt, lease, area, ft) ==
    [price_psf |-> price, price_index |-> index, storey_midpoint |-> storey,
     mrt_distance_m |-> mrt, remaining_lease_years |-> lease,
     floor_area_sqm |-> area, flat_type |-> ft]

\* Transactions for the calls made while coefficients are being loaded.
LoadSamples ==
    {FVTx(500, Some(150), Some(11), Some(300), 80, 95, "4 ROOM"),
     FVTx(600, Null, Null, Null, 60, 70, "MULTI-GENERATION")}

(***************************************************************************)
(* SpecFairValueLoad: loadCoefficients, invocation after invocation, with  *)
(* calls of the analysis methods in between.                               *)
(***************************************************************************)
fvFrame == <<dlVars, lastQuery, sessVars, uiVars, storeVars>>

\* loadCoefficients up to `await fetch(url)`.
LoadCoefficientsCall ==
    /\ coefLoad.pc \in {"idle", "settled"}
    /\ coefLoad.calls < MaxCoefLoads
    /\ coefLoad' = [coefLoad EXCEPT !.pc = "fetching", !.calls = @ + 1]
    /\ UNCHANGED <<coefficients, lastCall, fvFrame>>

\* fetch rejects: the catch block logs, loadCoefficients resolves.
FetchRejects ==
    /\ coefLoad.pc = "fetching"
    /\ coefLoad' = [coefLoad EXCEPT !.pc = "settled", !.last = "fetch-error"]
    /\ UNCHANGED <<coefficients, lastCall, fvFrame>>

\* fetch resolves: a response that is not ok throws into the catch block,
\* an ok response runs up to `await response.json()`.
FetchResponds(ok) ==
    /\ coefLoad.pc = "fetching"
    /\ coefLoad' = IF ok THEN [coefLoad EXCEPT !.pc = "parsing"]
                   ELSE [coefLoad EXCEPT !.pc = "settled", !.last = "not-ok"]
    /\ UNCHANGED <<coefficients, lastCall, fvFrame>>

\* response.json() rejects (the body is not JSON): caught and logged.
JsonRejects ==
    /\ coefLoad.pc = "parsing"
    /\ coefLoad' = [coefLoad EXCEPT !.pc = "settled", !.last = "bad-json"]
    /\ UNCHANGED <<coefficients, lastCall, fvFrame>>

\* response.json() resolves: its value is assigned to this.coefficients.
JsonResolves(body) ==
    /\ coefLoad.pc = "parsing"
    /\ coefficients' = body
    /\ coefLoad' = [coefLoad EXCEPT !.pc = "settled", !.last = "parsed",
                                    !.parsed = TRUE]
    /\ UNCHANGED <<lastCall, fvFrame>>

\* The result of the three methods for one transaction.
Answers(coef, t) ==
    [isReady |-> isReady(coef),
     adjusted |-> getAdjustedPricePsf(coef, t),
     predicted |-> predictPricePsm(coef,
                       IF IsNull(t.storey_midpoint) THEN 8 ELSE Val(t.storey_midpoint),
                       t.remaining_lease_years,
                       IF IsNull(t.mrt_distance_m) THEN 500 ELSE Val(t.mrt_distance_m),
                       t.floor_area_sqm, t.flat_type),
     impacts |-> getFactorImpacts(coef, t)]

\* A caller asks isReady, getAdjustedPricePsf, predictPricePsm and
\* getFactorImpacts about one transaction.
Ask(t) ==
    /\ lastCall' = Some([kind |-> "ask", transaction |-> t, model |-> coefficients,
                         answers |-> Answers(coefficients, t)])
    /\ UNCHANGED <<coefficients, coefLoad, fvFrame>>

InitFairValueLoad ==
    /\ data = <<>>
    /\ spatialIndex = Null
    /\ loads = [l \in LoadIds |-> "idle"]
    /\ lastQuery = Null
    /\ IdleSession
    /\ IdleUI
    /\ IdleFairValue
    /\ IdleStore

NextFairValueLoad ==
    \/ LoadCoefficientsCall
    \/ FetchRejects
    \/ \E ok \in BOOLEAN : FetchResponds(ok)
    \/ JsonRejects
    \/ \E body \in ResponseBodies : JsonResolves(body)
    \/ \E t \in LoadSamples : Ask(t)

SpecFairValueLoad == InitFairValueLoad /\ [][NextFairValueLoad]_vars

\* The answers of a FairValueAnalysis that has no model.
NoModelAnswers(t) ==
    [isReady |-> FALSE, adjusted |-> Frac(t.price_psf, 1),
     predicted |-> Frac(0, 1), impacts |-> <<>>]

\* C12: as long as no load has stored coefficients (none was started, or
\* every one failed to fetch or to parse), isReady() is false,
\* getAdjustedPricePsf returns the raw price_psf, getFactorImpacts returns the
\* empty list and predictPricePsm returns 0, for every transaction asked about.
C12_NoModelFallbacks ==
    ~coefLoad.parsed =>
        /\ ~isReady(coefficients)
        /\ \A t \in LoadSamples : Answers(coefficients, t) = NoModelAnswers(t)
        /\ (~IsNull(lastCall) /\ Val(lastCall).kind = "ask") =>
               Val(lastCall).answers = NoModelAnswers(Val(lastCall).transaction)

\* Two loads have failed and a transaction with another index than 100 was
\* asked about afterwards.
C12_Witness ==
    /\ coefLoad.pc = "settled" /\ coefLoad.calls = 2 /\ ~coefLoad.parsed
    /\ ~IsNull(lastCall) /\ Val(lastCall).kind = "ask"
    /\ Val(lastCall).transaction.price_index = Some(150)
    /\ Val(lastCall).answers.adjusted = Frac(500, 1)

\* C13: when the latest load ended without a usable document (fetch failed,
\* response not ok, body not JSON, or a body that is null or lacks required
\* fields) and no earlier load stored one, the model is absent: isReady() is
\* false and the methods return the no-model fallbacks, none throws.
C13_BrokenDocumentIsAbsent ==
    (/\ coefLoad.pc = "settled"
     /\ \/ ~coefLoad.parsed
        \/ coefLoad.last = "parsed" /\ ~WellFormed(coefficients)) =>
        /\ ~isReady(coefficients)
        /\ \A t \in LoadSamples : Answers(coefficients, t) = NoModelAnswers(t)

(***************************************************************************)
(* SpecFairValue: the analysis methods, with no model or with a complete   *)
(* one, applied to transactions drawn from the sets below.                 *)
(***************************************************************************)
FVPrices == {0, 400, 500, 600}
FVIndices == {Null, Some(100), Some(150)}
FlatTypeNames ==
    {"", "1 ROOM", "2 ROOM", "3 ROOM", "4 ROOM", "5 ROOM", "EXECUTIVE",
     "MULTI-GENERATION", "TERRACE"}

AdjustInputs ==
    {FVTx(p, i, Some(8), Some(500), 75, 90, "4 ROOM") : p \in FVPrices, i \in FVIndices}

ImpactInputs ==
    {FVTx(500, Some(100), s, m, l, a, "4 ROOM") :
        s \in {Null, Some(5), Some(8), Some(11)},
        m \in {Null, Some(300), Some(500), Some(800)},
        l \in {60, 75, 90}, a \in {70, 90, 110}}

PredictInputs ==
    {FVTx(500, Some(100), s, Some(400), 80, 95, ft) :
        s \in {Null, Some(11)}, ft \in FlatTypeNames}

\* getAdjustedPricePsf(transaction)
Adjust(t) ==
    /\ lastCall' = Some([kind |-> "adjust", transaction |-> t, model |-> coefficients,
                         result |-> getAdjustedPricePsf(coefficients, t)])
    /\ UNCHANGED <<coefficients, coefLoad, fvFrame>>

\* predictPricePsm for the features of a transaction (a caller passes numbers,
\* here the defaults of getFactorImpacts for a missing storey or distance);
\* the ordinal getFlatTypeEncoded gave is recorded with the result.
Predict(t) ==
    /\ lastCall' = Some([kind |-> "predict", transaction |-> t, model |-> coefficients,
                         encoded |-> getFlatTypeEncoded(coefficients, t.flat_type),
                         result |-> Answers(coefficients, t).predicted])
    /\ UNCHANGED <<coefficients, coefLoad, fvFrame>>

\* getFactorImpacts(transaction)
Impacts(t) ==
    /\ lastCall' = Some([kind |-> "impacts", transaction |-> t, model |-> coefficients,
                         result |-> getFactorImpacts(coefficients, t)])
    /\ UNCHANGED <<coefficients, coefLoad, fvFrame>>

InitFairValue ==
    /\ data = <<>>
    /\ spatialIndex = Null
    /\ loads = [l \in LoadIds |-> "idle"]
    /\ lastQuery = Null
    /\ IdleSession
    /\ IdleUI
    /\ IdleStore
    /\ lastCall = Null
    /\ \/ coefficients = Null /\ coefLoad = NoCoefLoad
       \/ /\ coefficients \in {Some(d) : d \in WellFormedDocuments}
          /\ coefLoad = [pc |-> "settled", calls |-> 1, last |-> "parsed",
                         parsed |-> TRUE]

NextFairValue ==
    \/ \E t \in AdjustInputs : Adjust(t)
    \/ \E t \in PredictInputs : Predict(t)
    \/ \E t \in ImpactInputs : Impacts(t)

SpecFairValue == InitFairValue /\ [][NextFairValue]_vars

\* C14: with a model loaded the adjusted price is price_psf *
\* latest_price_index / price_index, where 100 stands for price_index exactly
\* when the transaction has none: price 500 at index 100 against reference 180
\* gives 900, and at index 150 gives 600.
C14_AdjustedPriceFormula ==
    WellFormed(coefficients) =>
        LET ref == Val(Val(coefficients).latest_price_index)
            Expected(t) == IF IsNull(t.price_index)
                           THEN Frac(t.price_psf * ref, 100)
                           ELSE Frac(t.price_psf * ref, Val(t.price_index))
        IN  /\ \A t \in AdjustInputs :
                   FracEq(getAdjustedPricePsf(coefficients, t), Expected(t))
            /\ ref = 180 =>
                 \A t \in AdjustInputs :
                     /\ (t.price_psf = 500 /\ t.price_index = Some(100)) =>
                            FracEq(getAdjustedPricePsf(coefficients, t), Frac(900, 1))
                     /\ (t.price_psf = 500 /\ t.price_index = Some(150)) =>
                            FracEq(getAdjustedPricePsf(coefficients, t), Frac(600, 1))
                     /\ (t.price_psf = 500 /\ t.price_index = Null) =>
                            FracEq(getAdjustedPricePsf(coefficients, t), Frac(900, 1))

\* The test's second case was computed: 500 at index 150 against 180 is 600.
C14_Witness ==
    /\ ~IsNull(lastCall) /\ Val(lastCall).kind = "adjust"
    /\ Val(lastCall).model = Some(MockCoefficients)
    /\ Val(lastCall).transaction.price_psf = 500
    /\ Val(lastCall).transaction.price_index = Some(150)
    /\ FracEq(Val(lastCall).result, Frac(600, 1))

\* C15: for two transactions with the same price_index, the one with the
\* smaller price_psf has the smaller adjusted price, with a model loaded and
\* without one.
C15_AdjustmentPreservesOrder ==
    \A a, b \in AdjustInputs :
        (a.price_index = b.price_index /\ a.price_psf < b.price_psf) =>
            FracLess(getAdjustedPricePsf(coefficients, a),
                     getAdjustedPricePsf(coefficients, b))

\* With a model loaded, a transaction at index 150 was adjusted to a value
\* strictly between those of a cheaper and of a dearer one at the same index.
C15_Witness ==
    /\ ~IsNull(lastCall) /\ Val(lastCall).kind = "adjust"
    /\ WellFormed(Val(lastCall).model) /\ coefficients = Val(lastCall).model
    /\ Val(lastCall).transaction.price_index = Some(150)
    /\ \E a, b \in AdjustInputs :
           /\ a.price_index = Some(150) /\ b.price_index = Some(150)
           /\ a.price_psf < Val(lastCall).transaction.price_psf
           /\ Val(lastCall).transaction.price_psf < b.price_psf
           /\ FracLess(getAdjustedPricePsf(coefficients, a), Val(lastCall).result)
           /\ FracLess(Val(lastCall).result, getAdjustedPricePsf(coefficients, b))

C17_FactorLabels ==
    WellFormed(coefficients) =>
        \A t \in ImpactInputs :
            LET r == getFactorImpacts(coefficients, t)
                stats == Val(Val(coefficients).summary_stats)
            IN  /\ Len(r) = 4
                /\ r[1].feature = "storey_midpoint"
                /\ r[2].feature = "remaining_lease_years"
                /\ r[3].feature = "mrt_distance_km"
                /\ r[4].feature = "floor_area_sqm"
                /\ r[1].comparedToMean \in {"above average", "below average"}
                /\ r[2].comparedToMean \in {"above average", "below average"}
                /\ r[3].comparedToMean \in {"closer than average", "farther than average"}
                /\ r[4].comparedToMean \in {"larger than average", "smaller than average"}
                /\ r[1].comparedToMean = "above average"
                       <=> r[1].value > stats.storey_midpoint.mean
                /\ r[2].comparedToMean = "above average"
                       <=> t.remaining_lease_years > stats.remaining_lease_years.mean
                /\ r[3].comparedToMean = "closer than average"
                       <=> r[3].value < stats.mrt_distance_km.mean
                /\ r[4].comparedToMean = "larger than average"
                       <=> t.floor_area_sqm > stats.floor_area_sqm.mean
                /\ r[1].value = (IF IsNull(t.storey_midpoint) THEN 8
                                 ELSE Val(t.storey_midpoint))
                /\ r[3].value = (IF IsNull(t.mrt_distance_m) THEN 500
                                 ELSE Val(t.mrt_distance_m))

\* The impacts of a high-floor, long-lease, large flat 300 m from the MRT
\* were listed: above, above, closer, larger.
C17_Witness ==
    /\ ~IsNull(lastCall) /\ Val(lastCall).kind = "impacts"
    /\ WellFormed(Val(lastCall).model)
    /\ Val(lastCall).transaction.storey_midpoint = Some(11)
    /\ Val(lastCall).transaction.mrt_distance_m = Some(300)
    /\ Len(Val(lastCall).result) = 4
    /\ Val(lastCall).result[1].comparedToMean = "above average"
    /\ Val(lastCall).result[2].comparedToMean = "above average"
    /\ Val(lastCall).result[3].comparedToMean = "closer than average"
    /\ Val(lastCall).result[4].comparedToMean = "larger than average"

(***************************************************************************)
(* Statistics over adjusted prices: getPriceDistribution and the box-plot  *)
(* aggregation of AnalyticsPanel, FairValueTab and OverviewTab.            *)
(*                                                                         *)
(* Arithmetic on fractions, kept in lowest terms.                          *)
(***************************************************************************)
RECURSIVE Gcd(_, _)
Gcd(a, b) == IF b = 0 THEN a ELSE Gcd(b, a % b)

Reduce(f) ==
    LET g == Gcd(Abs(f.num), f.den)
    IN  Frac(f.num \div g, f.den \div g)

FracAdd(a, b) == Reduce(Frac(a.num * b.den + b.num * a.den, a.den * b.den))
FracSub(a, b) == Reduce(Frac(a.num * b.den - b.num * a.den, a.den * b.den))
FracMul(a, b) == Reduce(Frac(a.num * b.num, a.den * b.den))
FracLeq(a, b) == ~FracLess(b, a)

RECURSIVE FracSum(_)
FracSum(s) == IF s = <<>> THEN Frac(0, 1)
              ELSE FracAdd(FracSum(SubSeq(s, 1, Len(s) - 1)), s[Len(s)])

\* Array.prototype.sort((a, b) => a - b): ascending and stable.
RECURSIVE SortAscending(_)
SortAscending(s) ==
    IF s = <<>> THEN <<>>
    ELSE LET front == SortAscending(SubSeq(s, 1, Len(s) - 1))
             x == s[Len(s)]
             k == Cardinality({i \in 1 .. Len(front) : FracLeq(front[i], x)})
         IN  SubSeq(front, 1, k) \o <<x>> \o SubSeq(front, k + 1, Len(front))

\* The sorted array element at the 0-based index Math.floor(n * a / b).
AtFloor(sorted, a, b) == sorted[((Len(sorted) * a) \div b) + 1]

Sqrt(x) == [kind |-> "sqrt", of |-> x]

\* transactions.map(t => this.getAdjustedPricePsf(t))
AdjustedPrices(coef, transactions) ==
    [i \in 1 .. Len(transactions) |->
        Reduce(getAdjustedPricePsf(coef, transactions[i]))]

\* getPriceDistribution without the sort of the adjusted prices.
getPriceDistribution_Unsorted(coef, transactions) ==
    IF Len(transactions) = 0
    THEN [min |-> Frac(0, 1), max |-> Frac(0, 1), median |-> Frac(0, 1),
          q1 |-> Frac(0, 1), q3 |-> Frac(0, 1), mean |-> Frac(0, 1),
          std |-> Frac(0, 1)]
    ELSE LET adjustedPrices == AdjustedPrices(coef, transactions)
             n == Len(adjustedPrices)
             nth == Frac(1, n)
             mean == FracMul(FracSum(adjustedPrices), nth)
             variance ==
                 FracMul(FracSum([i \in 1 .. n |->
                             FracMul(FracSub(adjustedPrices[i], mean),
                                     FracSub(adjustedPrices[i], mean))]), nth)
         IN  [min |-> adjustedPrices[1], max |-> adjustedPrices[n],
              median |-> AtFloor(adjustedPrices, 1, 2),
              q1 |-> AtFloor(adjustedPrices, 1, 4),
              q3 |-> AtFloor(adjustedPrices, 3, 4),
              mean |-> mean, std |-> Sqrt(variance)]

\* FairValueAnalysis.getPriceDistribution
getPriceDistribution(coef, transactions) ==
    IF Len(transactions) = 0
    THEN [min |-> Frac(0, 1), max |-> Frac(0, 1), median |-> Frac(0, 1),
          q1 |-> Frac(0, 1), q3 |-> Frac(0, 1), mean |-> Frac(0, 1),
          std |-> Frac(0, 1)]
    ELSE LET adjustedPrices == SortAscending(AdjustedPrices(coef, transactions))
             n == Len(adjustedPrices)
             nth == Frac(1, n)
             mean == FracMul(FracSum(adjustedPrices), nth)
             variance ==
                 FracMul(FracSum([i \in 1 .. n |->
                             FracMul(FracSub(adjustedPrices[i], mean),
                                     FracSub(adjustedPrices[i], mean))]), nth)
         IN  [min |-> adjustedPrices[1], max |-> adjustedPrices[n],
              median |-> AtFloor(adjustedPrices, 1, 2),
              q1 |-> AtFloor(adjustedPrices, 1, 4),
              q3 |-> AtFloor(adjustedPrices, 3, 4),
              mean |-> mean, std |-> Sqrt(variance)]

Outside(p, lowerFence, upperFence) == FracLess(p, lowerFence) \/ FracLess(upperFence, p)
Inside(p, lowerFence, upperFence) == FracLeq(lowerFence, p) /\ FracLeq(p, upperFence)

\* The box-plot statistics with an in-range filter that leaves out the
\* points on the fences.
boxPlotStats_OpenFences(values) ==
    LET prices == SortAscending(values)
        n == Len(prices)
        q1 == AtFloor(prices, 1, 4)
        q3 == AtFloor(prices, 3, 4)
        iqr == FracSub(q3, q1)
        lowerFence == FracSub(q1, FracMul(Frac(3, 2), iqr))
        upperFence == FracAdd(q3, FracMul(Frac(3, 2), iqr))
        outliers == SelectSeq(prices, LAMBDA p : Outside(p, lowerFence, upperFence))
        inRange == SelectSeq(prices,
                       LAMBDA p : FracLess(lowerFence, p) /\ FracLess(p, upperFence))
    IN  [min |-> IF Len(inRange) > 0 THEN inRange[1] ELSE prices[1],
         q1 |-> q1,
         median |-> AtFloor(prices, 1, 2),
         mean |-> FracMul(FracSum(prices), Frac(1, n)),
         q3 |-> q3,
         max |-> IF Len(inRange) > 0 THEN inRange[Len(inRange)] ELSE prices[n],
         count |-> n,
         outliers |-> outliers,
         lowerFence |-> lowerFence, upperFence |-> upperFence, inRange |-> inRange]

\* The box-plot statistics with the extremes of the whole group as min and max.
boxPlotStats_RawExtremes(values) ==
    LET prices == SortAscending(values)
        n == Len(prices)
        q1 == AtFloor(prices, 1, 4)
        q3 == AtFloor(prices, 3, 4)
        iqr == FracSub(q3, q1)
        lowerFence == FracSub(q1, FracMul(Frac(3, 2), iqr))
        upperFence == FracAdd(q3, FracMul(Frac(3, 2), iqr))
        outliers == SelectSeq(prices, LAMBDA p : Outside(p, lowerFence, upperFence))
        inRange == SelectSeq(prices, LAMBDA p : Inside(p, lowerFence, upperFence))
    IN  [min |-> prices[1],
         q1 |-> q1,
         median |-> AtFloor(prices, 1, 2),
         mean |-> FracMul(FracSum(prices), Frac(1, n)),
         q3 |-> q3,
         max |-> prices[n],
         count |-> n,
         outliers |-> outliers,
         lowerFence |-> lowerFence, upperFence |-> upperFence, inRange |-> inRange]

\* The statistics of one group, as the map callbacks of aggregateByMonth,
\* aggregateByFeature and OverviewTab.renderChart compute them.  Besides the
\* returned fields the record carries the locals lowerFence, upperFence and
\* inRange as they stand at the return.
boxPlotStats(values) ==
    LET prices == SortAscending(values)
        n == Len(prices)
        q1 == AtFloor(prices, 1, 4)
        q3 == AtFloor(prices, 3, 4)
        iqr == FracSub(q3, q1)
        lowerFence == FracSub(q1, FracMul(Frac(3, 2), iqr))
        upperFence == FracAdd(q3, FracMul(Frac(3, 2), iqr))
        outliers == SelectSeq(prices, LAMBDA p : Outside(p, lowerFence, upperFence))
        inRange == SelectSeq(prices, LAMBDA p : Inside(p, lowerFence, upperFence))
    IN  [min |-> IF Len(inRange) > 0 THEN inRange[1] ELSE prices[1],
         q1 |-> q1,
         median |-> AtFloor(prices, 1, 2),
         mean |-> FracMul(FracSum(prices), Frac(1, n)),
         q3 |-> q3,
         max |-> IF Len(inRange) > 0 THEN inRange[Len(inRange)] ELSE prices[n],
         count |-> n,
         outliers |-> outliers,
         lowerFence |-> lowerFence, upperFence |-> upperFence, inRange |-> inRange]

\* The storey, lease and MRT buckets of aggregateByFeature; any other
\* feature groups by flat type.
FeatureKey(feature, t) ==
    CASE feature = "storey" ->
           (IF t.storey_midpoint <= 3 THEN "1-3"
            ELSE IF t.storey_midpoint <= 6 THEN "4-6"
            ELSE IF t.storey_midpoint <= 9 THEN "7-9"
            ELSE IF t.storey_midpoint <= 12 THEN "10-12"
            ELSE IF t.storey_midpoint <= 15 THEN "13-15"
            ELSE IF t.storey_midpoint <= 20 THEN "16-20"
            ELSE "21+")
      [] feature = "lease" ->
           (IF t.remaining_lease_years < 50 THEN "<50"
            ELSE IF t.remaining_lease_years < 60 THEN "50-59"
            ELSE IF t.remaining_lease_years < 70 THEN "60-69"
            ELSE IF t.remaining_lease_years < 80 THEN "70-79"
            ELSE IF t.remaining_lease_years < 90 THEN "80-89"
            ELSE "90+")
      [] feature = "mrt" ->
           (IF t.mrt_distance_m < 300 THEN "<300m"
            ELSE IF t.mrt_distance_m < 500 THEN "300-500m"
            ELSE IF t.mrt_distance_m < 750 THEN "500-750m"
            ELSE IF t.mrt_distance_m < 1000 THEN "750m-1km"
            ELSE ">1km")
      [] OTHER -> t.flat_type

\* The order of the group keys: the order arrays of aggregateByFeature, and
\* for flat types localeCompare on the names of the fixture.
KeyOrder(feature) ==
    CASE feature = "storey" -> <<"1-3", "4-6", "7-9", "10-12", "13-15", "16-20", "21+">>
      [] feature = "lease" -> <<"<50", "50-59", "60-69", "70-79", "80-89", "90+">>
      [] feature = "mrt" -> <<"<300m", "300-500m", "500-750m", "750m-1km", ">1km">>
      [] OTHER -> <<"", "1 ROOM", "2 ROOM", "3 ROOM", "4 ROOM", "5 ROOM",
                    "EXECUTIVE", "MULTI-GENERATION", "TERRACE">>

\* One element of the returned array: the group's key (month or label), its
\* statistics, and the values pushed into the group, in the order pushed.
Group(key, values) == [key |-> key, samples |-> values, box |-> boxPlotStats(values)]

\* The distinct elements of a sequence in the order of their first occurrence
\* (the key order of a Map).
RECURSIVE FirstOccurrences(_)
FirstOccurrences(s) ==
    IF s = <<>> THEN <<>>
    ELSE LET front == FirstOccurrences(SubSeq(s, 1, Len(s) - 1))
         IN  IF \E i \in 1 .. Len(front) : front[i] = s[Len(s)] THEN front
             ELSE Append(front, s[Len(s)])

\* aggregateByFeature without the sort of the keys: groups come out in the
\* order in which the Map first saw them.
aggregateByFeature_InsertionOrder(coef, transactions, feature) ==
    LET sortedKeys == FirstOccurrences([i \in 1 .. Len(transactions) |->
                                           FeatureKey(feature, transactions[i])])
    IN  [j \in 1 .. Len(sortedKeys) |->
            Group(sortedKeys[j],
                  AdjustedPrices(coef,
                      SelectSeq(transactions,
                          LAMBDA t : FeatureKey(feature, t) = sortedKeys[j])))]

\* AnalyticsPanel.aggregateByFeature and FairValueTab.aggregateByFeature
aggregateByFeature(coef, transactions, feature) ==
    LET present == {FeatureKey(feature, transactions[i]) : i \in 1 .. Len(transactions)}
        sortedKeys == SelectSeq(KeyOrder(feature), LAMBDA k : k \in present)
    IN  [j \in 1 .. Len(sortedKeys) |->
            Group(sortedKeys[j],
                  AdjustedPrices(coef,
                      SelectSeq(transactions,
                          LAMBDA t : FeatureKey(feature, t) = sortedKeys[j])))]

\* A finite set of integers as an ascending sequence.
RECURSIVE Ascending(_)
Ascending(S) ==
    IF S = {} THEN <<>>
    ELSE LET m == CHOOSE x \in S : \A y \in S : x <= y
         IN  <<m>> \o Ascending(S \ {m})

RawPrices(transactions) ==
    [i \in 1 .. Len(transactions) |-> Frac(transactions[i].price_psf, 1)]

\* aggregateByMonth without the final sort: months in the order in which
\* the Map first saw them.
aggregateByMonth_InsertionOrder(transactions) ==
    LET months == FirstOccurrences([i \in 1 .. Len(transactions) |->
                                       transactions[i].month])
    IN  [j \in 1 .. Len(months) |->
            Group(months[j],
                  RawPrices(SelectSeq(transactions, LAMBDA t : t.month = months[j])))]

\* AnalyticsPanel.aggregateByMonth; a month 'YYYY-MM' is the number YYYYMM.
aggregateByMonth(transactions) ==
    LET months == Ascending({transactions[i].month : i \in 1 .. Len(transactions)})
    IN  [j \in 1 .. Len(months) |->
            Group(months[j],
                  RawPrices(SelectSeq(transactions, LAMBDA t : t.month = months[j])))]

\* The quarter key of OverviewTab.renderChart, `${year}-Q${q}`, as the
\* number year * 10 + q; getMonth() counts from 0.
QuarterKey(t) == t.transaction_date.year * 10 + (t.transaction_date.month \div 3) + 1

\* OverviewTab.renderChart: the box-plot data handed to the chart, none for
\* an empty selection.
renderChart(transactions) ==
    LET sortedQuarters == Ascending({QuarterKey(transactions[i]) :
                                        i \in 1 .. Len(transactions)})
    IN  [j \in 1 .. Len(sortedQuarters) |->
            Group(sortedQuarters[j],
                  RawPrices(SelectSeq(transactions,
                      LAMBDA t : QuarterKey(t) = sortedQuarters[j])))]

(***************************************************************************)
(* SpecStatistics: the statistics of selections drawn from four            *)
(* transactions, with no model or with the test's model.                   *)
(***************************************************************************)
MaxSamples == 5

StatTx(price, index, month, year, monthOfYear, storey, lease, mrt, ft) ==
    [price_psf |-> price, price_index |-> index, month |-> month,
     transaction_date |-> [year |-> year, month |-> monthOfYear],
     storey_midpoint |-> storey, remaining_lease_years |-> lease,
     mrt_distance_m |-> mrt, flat_type |-> ft]

StatSamples ==
    {StatTx(10, Some(100), 202401, 2024, 0, 2, 45, 200, "3 ROOM"),
     StatTx(50, Some(100), 202401, 2024, 0, 2, 95, 400, "4 ROOM"),
     StatTx(90, Some(100), 202401, 2024, 0, 5, 95, 1200, "4 ROOM"),
     StatTx(75, Some(150), 202404, 2024, 3, 2, 95, 200, "4 ROOM")}

Selections == SeqsUpTo(StatSamples, MaxSamples)

Features == {"storey", "lease", "mrt", "flat_type"}

\* The selection the statistics are asked for, before any was computed.
Selected(ts) == Some([kind |-> "selection", transactions |-> ts])

HasSelection == ~IsNull(lastCall) /\ Val(lastCall).kind = "selection"

\* getPriceDistribution(transactions)
Distribution ==
    /\ HasSelection
    /\ LET ts == Val(lastCall).transactions
       IN  lastCall' = Some([kind |-> "distribution", transactions |-> ts,
                             model |-> coefficients,
                             result |-> getPriceDistribution(coefficients, ts)])
    /\ UNCHANGED <<coefficients, coefLoad, fvFrame>>

\* aggregateByMonth(transactions)
AggregateByMonth ==
    /\ HasSelection
    /\ LET ts == Val(lastCall).transactions
       IN  lastCall' = Some([kind |-> "groups", by |-> "month", transactions |-> ts,
                             model |-> coefficients,
                             result |-> aggregateByMonth(ts)])
    /\ UNCHANGED <<coefficients, coefLoad, fvFrame>>

\* aggregateByFeature(transactions, feature)
AggregateByFeature(feature) ==
    /\ HasSelection
    /\ LET ts == Val(lastCall).transactions
       IN  lastCall' = Some([kind |-> "groups", by |-> feature, transactions |-> ts,
                             model |-> coefficients,
                             result |-> aggregateByFeature(coefficients, ts, feature)])
    /\ UNCHANGED <<coefficients, coefLoad, fvFrame>>

\* OverviewTab.renderChart(data)
RenderChart ==
    /\ HasSelection
    /\ LET ts == Val(lastCall).transactions
       IN  lastCall' = Some([kind |-> "groups", by |-> "quarter", transactions |-> ts,
                             model |-> coefficients,
                             result |-> renderChart(ts)])
    /\ UNCHANGED <<coefficients, coefLoad, fvFrame>>

InitStatistics ==
    /\ data = <<>>
    /\ spatialIndex = Null
    /\ loads = [l \in LoadIds |-> "idle"]
    /\ lastQuery = Null
    /\ IdleSession
    /\ IdleUI
    /\ IdleStore
    /\ lastCall \in {Selected(ts) : ts \in Selections}
    /\ \/ coefficients = Null /\ coefLoad = NoCoefLoad
       \/ /\ coefficients = Some(MockCoefficients)
          /\ coefLoad = [pc |-> "settled", calls |-> 1, last |-> "parsed",
                         parsed |-> TRUE]

NextStatistics ==
    \/ Distribution
    \/ AggregateByMonth
    \/ \E feature \in Features : AggregateByFeature(feature)
    \/ RenderChart

SpecStatistics == InitStatistics /\ [][NextStatistics]_vars

IsDistribution == ~IsNull(lastCall) /\ Val(lastCall).kind = "distribution"
IsGroups == ~IsNull(lastCall) /\ Val(lastCall).kind = "groups"

\* C18: getPriceDistribution returns zero in every field for an empty list;
\* for n > 0 transactions its min, q1, median, q3 and max are the elements of
\* the ascending adjusted prices at the indices 0, floor(n * 0.25),
\* floor(n / 2), floor(n * 0.75) and n - 1, which all lie in 0 .. n - 1, so
\* that min <= q1 <= median <= q3 <= max.
C18_DistributionQuantiles ==
    IsDistribution =>
        LET call == Val(lastCall)
            r == call.result
            n == Len(call.transactions)
            sorted == SortAscending(AdjustedPrices(call.model, call.transactions))
        IN  IF n = 0
            THEN \A f \in {"min", "max", "median", "q1", "q3", "mean", "std"} :
                     r[f] = Frac(0, 1)
            ELSE /\ \A i \in 1 .. n - 1 : FracLeq(sorted[i], sorted[i + 1])
                 /\ \A v \in {sorted[i] : i \in 1 .. n} :
                        Cardinality({i \in 1 .. n : sorted[i] = v})
                          = Cardinality({i \in 1 .. n :
                                Reduce(getAdjustedPricePsf(call.model,
                                           call.transactions[i])) = v})
                 /\ {0, n \div 4, n \div 2, (3 * n) \div 4, n - 1} \subseteq 0 .. n - 1
                 /\ r.min = sorted[0 + 1]
                 /\ r.q1 = sorted[(n \div 4) + 1]
                 /\ r.median = sorted[(n \div 2) + 1]
                 /\ r.q3 = sorted[((3 * n) \div 4) + 1]
                 /\ r.max = sorted[(n - 1) + 1]
                 /\ FracLeq(r.min, r.q1) /\ FracLeq(r.q1, r.median)
                 /\ FracLeq(r.median, r.q3) /\ FracLeq(r.q3, r.max)

\* With the model loaded, the distribution of five transactions handed over
\* from the dearest to the cheapest was computed: min 18, median 90, q3 162
\* and max 162 come from the sorted adjusted prices.
C18_Witness ==
    /\ IsDistribution
    /\ Val(lastCall).model = Some(MockCoefficients)
    /\ Len(Val(lastCall).transactions) = 5
    /\ Val(lastCall).transactions[1].price_psf = 90
    /\ Val(lastCall).transactions[5].price_psf = 10
    /\ Val(lastCall).result.min = Frac(18, 1)
    /\ Val(lastCall).result.median = Frac(90, 1)
    /\ Val(lastCall).result.q3 = Frac(162, 1)
    /\ Val(lastCall).result.max = Frac(162, 1)

\* The Tukey fences recomputed from the reported quartiles.
LowerFenceOf(box) == FracSub(box.q1, FracMul(Frac(3, 2), FracSub(box.q3, box.q1)))
UpperFenceOf(box) == FracAdd(box.q3, FracMul(Frac(3, 2), FracSub(box.q3, box.q1)))

Occurrences(s, v) == Cardinality({i \in 1 .. Len(s) : s[i] = v})

\* C19: the aggregation drops no sample: every transaction lands in one
\* group, and in each group every value is either listed as an outlier, and
\* then lies strictly below Q1 - 1.5 IQR or strictly above Q3 + 1.5 IQR, or is
\* kept inside the fences; outliers and in-fence values together are as many
\* as the group has values.
C19_NoSampleDropped ==
    IsGroups =>
        LET groups == Val(lastCall).result
        IN  /\ FracSum([j \in 1 .. Len(groups) |-> Frac(Len(groups[j].samples), 1)])
                 = Frac(Len(Val(lastCall).transactions), 1)
            /\ \A j \in 1 .. Len(groups) :
                 LET g == groups[j]
                     lo == LowerFenceOf(g.box)
                     hi == UpperFenceOf(g.box)
                 IN  /\ Len(g.samples) > 0
                     /\ Len(g.box.outliers) + Len(g.box.inRange) = Len(g.samples)
                     /\ \A i \in 1 .. Len(g.box.outliers) :
                            Outside(g.box.outliers[i], lo, hi)
                     /\ \A i \in 1 .. Len(g.box.inRange) :
                            Inside(g.box.inRange[i], lo, hi)
                     /\ \A i \in 1 .. Len(g.samples) :
                            /\ Outside(g.samples[i], lo, hi)
                                 <=> ~Inside(g.samples[i], lo, hi)
                            /\ Occurrences(g.samples, g.samples[i])
                                 = Occurrences(g.box.outliers, g.samples[i])
                                   + Occurrences(g.box.inRange, g.samples[i])

\* A month of five prices was aggregated with one outlier below and one
\* above the fences and three values inside.
C19_Witness ==
    /\ IsGroups /\ Val(lastCall).by = "month"
    /\ Len(Val(lastCall).result) = 1
    /\ Len(Val(lastCall).result[1].samples) = 5
    /\ Val(lastCall).result[1].box.outliers = <<Frac(10, 1), Frac(90, 1)>>
    /\ Len(Val(lastCall).result[1].box.inRange) = 3

\* C20: in every group the reported min and max are the smallest and the
\* largest value inside the fences, every outlier lies strictly below min or
\* strictly above max, and min <= q1 <= median <= q3 <= max.
C20_WhiskersAreInFenceExtremes ==
    IsGroups =>
        \A j \in 1 .. Len(Val(lastCall).result) :
            LET g == Val(lastCall).result[j]
                lo == LowerFenceOf(g.box)
                hi == UpperFenceOf(g.box)
                inside == {g.samples[i] : i \in {k \in 1 .. Len(g.samples) :
                                                    Inside(g.samples[k], lo, hi)}}
            IN  /\ inside # {}
                /\ g.box.min \in inside /\ g.box.max \in inside
                /\ \A v \in inside : FracLeq(g.box.min, v) /\ FracLeq(v, g.box.max)
                /\ \A i \in 1 .. Len(g.box.outliers) :
                       \/ FracLess(g.box.outliers[i], g.box.min)
                       \/ FracLess(g.box.max, g.box.outliers[i])
                /\ FracLeq(g.box.min, g.box.q1) /\ FracLeq(g.box.q1, g.box.median)
                /\ FracLeq(g.box.median, g.box.q3) /\ FracLeq(g.box.q3, g.box.max)

\* With the model loaded, the storey bucket '1-3' was aggregated from five
\* adjusted prices of which the lowest, 18, is an outlier: the reported min
\* is 90, the smallest price inside the fences.
C20_Witness ==
    /\ IsGroups /\ Val(lastCall).by = "storey"
    /\ Val(lastCall).model = Some(MockCoefficients)
    /\ Len(Val(lastCall).result) = 1
    /\ Val(lastCall).result[1].key = "1-3"
    /\ Val(lastCall).result[1].box.count = 5
    /\ Val(lastCall).result[1].box.outliers = <<Frac(18, 1)>>
    /\ Val(lastCall).result[1].box.min = Frac(90, 1)
    /\ Val(lastCall).result[1].box.max = Frac(90, 1)

\* The position of a key in a sequence of distinct keys.
PositionIn(order, k) == CHOOSE i \in 1 .. Len(order) : order[i] = k

\* C21: aggregateByFeature emits its groups in the canonical order of the
\* feature (storey, lease and MRT buckets in the order of their lists, flat
\* types in lexical order) whatever the order of the transactions, each key
\* once, and every transaction is counted in exactly one emitted group.
C21_GroupsInCanonicalOrder ==
    (IsGroups /\ Val(lastCall).by \in Features) =>
        LET call == Val(lastCall)
            groups == call.result
            order == KeyOrder(call.by)
        IN  /\ \A j \in 1 .. Len(groups) :
                   \E i \in 1 .. Len(order) : order[i] = groups[j].key
            /\ \A j \in 1 .. Len(groups) - 1 :
                   PositionIn(order, groups[j].key) < PositionIn(order, groups[j + 1].key)
            /\ \A i \in 1 .. Len(call.transactions) :
                   Cardinality({j \in 1 .. Len(groups) :
                       groups[j].key = FeatureKey(call.by, call.transactions[i])}) = 1
            /\ \A j \in 1 .. Len(groups) :
                   groups[j].box.count =
                       Cardinality({i \in 1 .. Len(call.transactions) :
                           FeatureKey(call.by, call.transactions[i]) = groups[j].key})
            /\ FracSum([j \in 1 .. Len(groups) |-> Frac(groups[j].box.count, 1)])
                 = Frac(Len(call.transactions), 1)

\* A selection that starts with a transaction of storey bucket '4-6' and
\* goes on with one of '1-3' was grouped by storey: '1-3' comes out first.
C21_Witness ==
    /\ IsGroups /\ Val(lastCall).by = "storey"
    /\ Len(Val(lastCall).transactions) >= 3
    /\ Val(lastCall).transactions[1].storey_midpoint = 5
    /\ Val(lastCall).transactions[2].storey_midpoint = 2
    /\ Len(Val(lastCall).result) = 2
    /\ Val(lastCall).result[1].key = "1-3"
    /\ Val(lastCall).result[2].key = "4-6"
    /\ Val(lastCall).result[1].box.count + Val(lastCall).result[2].box.count
         = Len(Val(lastCall).transactions)

\* The bucket key a transaction falls under in a grouping by time.
TimeKey(by, t) == IF by = "month" THEN t.month ELSE QuarterKey(t)

\* C22: aggregation by month or by quarter emits every bucket key once, in
\* strictly increasing order of the keys, which is the order of time; every
\* transaction contributes to exactly one bucket and the bucket sizes sum to
\* the number of transactions.
C22_TimeBucketsAscending ==
    (IsGroups /\ Val(lastCall).by \in {"month", "quarter"}) =>
        LET call == Val(lastCall)
            groups == call.result
        IN  /\ \A j \in 1 .. Len(groups) - 1 : groups[j].key < groups[j + 1].key
            /\ \A i \in 1 .. Len(call.transactions) :
                   Cardinality({j \in 1 .. Len(groups) :
                       groups[j].key = TimeKey(call.by, call.transactions[i])}) = 1
            /\ \A j \in 1 .. Len(groups) :
                   /\ Len(groups[j].samples) > 0
                   /\ groups[j].box.count = Len(groups[j].samples)
                   /\ Len(groups[j].samples) =
                          Cardinality({i \in 1 .. Len(call.transactions) :
                              TimeKey(call.by, call.transactions[i]) = groups[j].key})
            /\ FracSum([j \in 1 .. Len(groups) |-> Frac(Len(groups[j].samples), 1)])
                 = Frac(Len(call.transactions), 1)

\* A selection whose first transaction is of April 2024 and whose later ones
\* are of January 2024 was grouped by month: January comes out first, with
\* two or more transactions.
C22_Witness ==
    /\ IsGroups /\ Val(lastCall).by = "month"
    /\ Len(Val(lastCall).transactions) >= 3
    /\ Val(lastCall).transactions[1].month = 202404
    /\ Val(lastCall).transactions[2].month = 202401
    /\ Len(Val(lastCall).result) = 2
    /\ Val(lastCall).result[1].key = 202401
    /\ Val(lastCall).result[2].key = 202404
    /\ Len(Val(lastCall).result[1].samples) >= 2

(***************************************************************************)
(* StateStore                                                              *)
(*                                                                         *)
(* A Set of callbacks is a sequence without repetition, in insertion       *)
(* order, which is the order Set.forEach visits.  A listener is a callback *)
(* that records its argument, as those of the store's tests; nothing in    *)
(* the program subscribes a listener that calls back into the store.       *)
(***************************************************************************)
Callbacks == {"cb1", "cb2"}

StoreValues(key) == IF key = "selectionMode" THEN {"radial", "rect"} ELSE BOOLEAN

Elements(s) == {s[i] : i \in 1 .. Len(s)}

\* StateStore.get
get(state, key) == state[key]

\* notify that goes on to the listeners of another key.
notify_EveryKey(state, ls, key) ==
    LET other == CHOOSE k \in DOMAIN ls : k # key
        Visit(k) == IF IsNull(ls[k]) THEN <<>>
                    ELSE [i \in 1 .. Len(Val(ls[k])) |->
                             [listener |-> Val(ls[k])[i], value |-> state[key]]]
    IN  Visit(key) \o Visit(other)

\* StateStore.notify: the invocations it makes, in order.
notify(state, ls, key) ==
    IF IsNull(ls[key]) THEN <<>>
    ELSE [i \in 1 .. Len(Val(ls[key])) |->
             [listener |-> Val(ls[key])[i], value |-> state[key]]]

\* StateStore.subscribe, up to the return of the unsubscribe function.
subscribe(ls, key, callback) ==
    LET present == IF IsNull(ls[key]) THEN <<>> ELSE Val(ls[key])
    IN  [ls EXCEPT ![key] = Some(IF callback \in Elements(present) THEN present
                                 ELSE Append(present, callback))]

\* An unsubscribe function that empties the Set of its key.
unsubscribe_ClearsKey(ls, key, callback) ==
    IF IsNull(ls[key]) THEN ls
    ELSE [ls EXCEPT ![key] = Some(<<>>)]

\* The unsubscribe function that subscribe(key, callback) returned.
unsubscribe(ls, key, callback) ==
    IF IsNull(ls[key]) THEN ls
    ELSE [ls EXCEPT ![key] = Some(SelectSeq(Val(ls[key]), LAMBDA c : c # callback))]

storeFrame == <<dlVars, lastQuery, sessVars, build, mapView, isDragging, panel,
                radiusInput, pendingSearches, rendered, committed, fvVars>>

\* store.set(key, value); the history keeps the invocations made, the
\* callbacks that were subscribed and not unsubscribed when set was called,
\* and those that had been unsubscribed by then.
StoreSet(key, value) ==
    /\ appState' = [appState EXCEPT ![key] = value]
    /\ notified' = [notified EXCEPT !.last =
                       Some([key |-> key, value |-> value,
                             calls |-> notify(appState', listeners, key),
                             live |-> notified.live,
                             cancelled |-> notified.cancelled])]
    /\ UNCHANGED <<listeners, storeFrame>>

\* store.subscribe(key, callback)
Subscribe(key, callback) ==
    /\ listeners' = subscribe(listeners, key, callback)
    /\ notified' = [notified EXCEPT !.live[key] = @ \cup {callback},
                                    !.cancelled[key] = @ \ {callback}]
    /\ UNCHANGED <<appState, storeFrame>>

\* A call of the unsubscribe function of the latest subscribe(key, callback),
\* the first call or a repeated one.
Unsubscribe(key, callback) ==
    /\ callback \in notified.live[key] \cup notified.cancelled[key]
    /\ listeners' = unsubscribe(listeners, key, callback)
    /\ notified' = [notified EXCEPT !.live[key] = @ \ {callback},
                                    !.cancelled[key] = @ \cup {callback}]
    /\ UNCHANGED <<appState, storeFrame>>

InitStore ==
    /\ data = <<>>
    /\ spatialIndex = Null
    /\ loads = [l \in LoadIds |-> "idle"]
    /\ lastQuery = Null
    /\ IdleSession
    /\ IdleUI
    /\ IdleFairValue
    /\ IdleStore

NextStore ==
    \/ \E key \in StoreKeys : \E value \in StoreValues(key) : StoreSet(key, value)
    \/ \E key \in StoreKeys, callback \in Callbacks : Subscribe(key, callback)
    \/ \E key \in StoreKeys, callback \in Callbacks : Unsubscribe(key, callback)

SpecStore == InitStore /\ [][NextStore]_vars

HasSet == ~IsNull(notified.last)

\* C23: a set(key, v) stores v, so that get(key) returns v, and invokes
\* every listener subscribed to the key at that moment exactly once with v,
\* however many share the key, and no listener of another key.
C23_SetStoresThenNotifies ==
    HasSet =>
        LET last == Val(notified.last)
        IN  /\ get(appState, last.key) = last.value
            /\ \A c \in last.live[last.key] :
                   Cardinality({i \in 1 .. Len(last.calls) :
                                   last.calls[i].listener = c}) = 1
            /\ \A i \in 1 .. Len(last.calls) :
                   /\ last.calls[i].listener \in last.live[last.key]
                   /\ last.calls[i].value = last.value

\* Two listeners shared 'selectionMode' and one of them also listened to
\* the other key when 'rect' was set: two invocations were made, with 'rect'.
C23_Witness ==
    /\ HasSet
    /\ Val(notified.last).key = "selectionMode"
    /\ Val(notified.last).value = "rect"
    /\ Val(notified.last).live["selectionMode"] = {"cb1", "cb2"}
    /\ Val(notified.last).live["isSelectionModeActive"] = {"cb1"}
    /\ Len(Val(notified.last).calls) = 2
    /\ get(appState, "selectionMode") = "rect"

\* C24: once the unsubscribe function of subscribe(key, cb) has been called,
\* cb is not in the key's Set and no later set of the key invokes it, while
\* the key's other listeners stay subscribed and are invoked; a repeated call
\* of the unsubscribe function changes nothing.
C24_UnsubscribedStaysSilent ==
    /\ \A key \in StoreKeys :
           /\ Elements(IF IsNull(listeners[key]) THEN <<>> ELSE Val(listeners[key]))
                = notified.live[key]
           /\ notified.cancelled[key] \cap notified.live[key] = {}
    /\ HasSet =>
           LET last == Val(notified.last)
           IN  /\ {last.calls[i].listener : i \in 1 .. Len(last.calls)}
                    = last.live[last.key]
               /\ \A i \in 1 .. Len(last.calls) :
                      last.calls[i].listener \notin last.cancelled[last.key]

\* cb1 and cb2 listened to 'selectionMode', cb1 was unsubscribed, and the
\* next set invoked cb2 alone.
C24_Witness ==
    /\ HasSet
    /\ Val(notified.last).key = "selectionMode"
    /\ Val(notified.last).cancelled["selectionMode"] = {"cb1"}
    /\ Val(notified.last).live["selectionMode"] = {"cb2"}
    /\ Len(Val(notified.last).calls) = 1
    /\ Val(notified.last).calls[1].listener = "cb2"

(***************************************************************************)
(* applyFilters, the exported filter function.  Time is counted in hours;  *)
(* a day is 24 of them.                                                    *)
(***************************************************************************)
HoursPerDay == 24

\* Math.ceil(Math.abs(now - txDate) / (1000 * 60 * 60 * 24))
DiffDays(now, txDate) == (Abs(now - txDate) + HoursPerDay - 1) \div HoursPerDay

\* applyFilters whose lease bounds are exclusive.
applyFilters_ExclusiveLease(transactions, filters, now) ==
    SelectSeq(transactions, LAMBDA t :
        IF t.flat_type \notin filters.flatTypes THEN FALSE
        ELSE IF t.remaining_lease_years <= filters.leaseMin
                \/ t.remaining_lease_years >= filters.leaseMax THEN FALSE
        ELSE IF filters.date # "all"
        THEN LET diffDays == DiffDays(now, t.transaction_date)
             IN  IF filters.date = "6m" /\ diffDays > 180 THEN FALSE
                 ELSE IF filters.date = "1y" /\ diffDays > 365 THEN FALSE
                 ELSE IF filters.date = "3y" /\ diffDays > 365 * 3 THEN FALSE
                 ELSE IF filters.date = "5y" /\ diffDays > 365 * 5 THEN FALSE
                 ELSE TRUE
        ELSE TRUE)

\* applyFilters(transactions, filters), with `new Date()` as a parameter.
applyFilters(transactions, filters, now) ==
    SelectSeq(transactions, LAMBDA t :
        IF t.flat_type \notin filters.flatTypes THEN FALSE
        ELSE IF t.remaining_lease_years < filters.leaseMin
                \/ t.remaining_lease_years > filters.leaseMax THEN FALSE
        ELSE IF filters.date # "all"
        THEN LET diffDays == DiffDays(now, t.transaction_date)
             IN  IF filters.date = "6m" /\ diffDays > 180 THEN FALSE
                 ELSE IF filters.date = "1y" /\ diffDays > 365 THEN FALSE
                 ELSE IF filters.date = "3y" /\ diffDays > 365 * 3 THEN FALSE
                 ELSE IF filters.date = "5y" /\ diffDays > 365 * 5 THEN FALSE
                 ELSE TRUE
        ELSE TRUE)

(***************************************************************************)
(* SpecFilters: applyFilters on arrays of the test's transactions and one  *)
(* at the edge of the six-month window.  Day 0 is 2020-01-01.              *)
(***************************************************************************)
MaxFilterRows == 3

\* The moment of the call: noon of 2024-07-01.
Now == 1643 * HoursPerDay + 12

FilterTx(ft, lease, date) ==
    [flat_type |-> ft, remaining_lease_years |-> lease, transaction_date |-> date]

FilterSamples ==
    {FilterTx("4 ROOM", 75, 1475 * HoursPerDay),      \* 2024-01-15
     FilterTx("3 ROOM", 60, 152 * HoursPerDay),       \* 2020-06-01
     FilterTx("5 ROOM", 90, 1613 * HoursPerDay),      \* 2024-06-01
     FilterTx("EXECUTIVE", 85, 1096 * HoursPerDay),   \* 2023-01-01
     FilterTx("2 ROOM", 99, Now - 180 * HoursPerDay - 1)}

FilterTables == SeqsUpTo(FilterSamples, MaxFilterRows)

FilterChoices ==
    {[flatTypes |-> fts, leaseMin |-> l[1], leaseMax |-> l[2], date |-> d] :
        fts \in {AllFlatTypes, {"4 ROOM", "5 ROOM"}, {"MULTI-GENERATION"},
                 {"4 ROOM", "5 ROOM", "EXECUTIVE"}},
        l \in {<<0, 99>>, <<70, 99>>, <<80, 99>>, <<60, 90>>},
        d \in {"all", "6m", "1y", "3y", "5y"}}

\* A call applyFilters(data, filters); filter() builds a new array and
\* leaves the one it is called on as it is.
ApplyFiltersCall(filters) ==
    /\ IsNull(lastCall)
    /\ lastCall' = Some([kind |-> "filtered", input |-> data, filters |-> filters,
                         result |-> applyFilters(data, filters, Now)])
    /\ UNCHANGED <<dlVars, lastQuery, sessVars, uiVars, coefficients, coefLoad,
                   storeVars>>

InitFilters ==
    /\ data \in FilterTables
    /\ spatialIndex = Null
    /\ loads = [l \in LoadIds |-> "idle"]
    /\ lastQuery = Null
    /\ IdleSession
    /\ IdleUI
    /\ IdleFairValue
    /\ IdleStore

NextFilters == \E filters \in FilterChoices : ApplyFiltersCall(filters)

SpecFilters == InitFilters /\ [][NextFilters]_vars

IsFiltered == ~IsNull(lastCall) /\ Val(lastCall).kind = "filtered"

\* The days of the date windows.
WindowDays(date) ==
    CASE date = "6m" -> 180 [] date = "1y" -> 365 [] date = "3y" -> 1095
      [] date = "5y" -> 1825

\* Does a transaction satisfy the flat-type, lease and date criteria together?
Satisfies(t, filters) ==
    /\ t.flat_type \in filters.flatTypes
    /\ filters.leaseMin <= t.remaining_lease_years
    /\ t.remaining_lease_years <= filters.leaseMax
    /\ filters.date # "all" =>
           DiffDays(Now, t.transaction_date) <= WindowDays(filters.date)

\* C25: applyFilters leaves its input as it was and returns, in input order,
\* exactly the transactions that satisfy the flat-type, lease (bounds
\* included) and date-window criteria together; with all six flat types,
\* lease 0 to 99 and date 'all' that is the whole input, and when no
\* transaction satisfies them it is the empty array.
C25_ApplyFiltersKeepsExactlyMatches ==
    IsFiltered =>
        LET call == Val(lastCall)
            kept == {i \in 1 .. Len(call.input) : Satisfies(call.input[i], call.filters)}
        IN  /\ data = call.input
            /\ Len(call.result) = Cardinality(kept)
            /\ \A j \in 1 .. Len(call.result) :
                   LET i == CHOOSE i \in kept :
                                Cardinality({k \in kept : k <= i}) = j
                   IN  call.result[j] = call.input[i]
            /\ (/\ call.filters.flatTypes = AllFlatTypes
                /\ call.filters.leaseMin = 0 /\ call.filters.leaseMax = 99
                /\ call.filters.date = "all") => call.result = call.input
            /\ kept = {} => call.result = <<>>

\* Three of the test's transactions were filtered for 4 ROOM, 5 ROOM and
\* EXECUTIVE with lease 80 to 99 within three years: the first, of 75 years,
\* is dropped and the other two are returned in their order.
C25_Witness ==
    /\ IsFiltered
    /\ Len(Val(lastCall).input) = 3
    /\ Val(lastCall).input[1].remaining_lease_years = 75
    /\ Val(lastCall).input[2].remaining_lease_years = 85
    /\ Val(lastCall).input[3].remaining_lease_years = 90
    /\ Val(lastCall).filters.leaseMin = 80
    /\ Val(lastCall).filters.date = "3y"
    /\ Val(lastCall).result = <<Val(lastCall).input[2], Val(lastCall).input[3]>>

\* C26: a selection-derived set in use, the panel's current transactions or
\* the map's highlighted set, holds only transactions that pass the global
\* filters in force, after a drag selection, a search, a radius edit and a
\* later change of the filters alike.
C26_SelectionPassesCurrentFilters ==
    /\ ~IsNull(panel.currentTransactions) =>
           \A i \in Val(panel.currentTransactions) :
               PassesFilters(data[i], appState.globalFilters)
    /\ ~IsNull(mapView.selectedTransactions) =>
           \A i \in Val(mapView.selectedTransactions) :
               PassesFilters(data[i], appState.globalFilters)


(***************************************************************************)
(* Overlapping address searches.  performSearch keeps no request token:   *)
(* each invocation is suspended at its await and resumes, whenever its    *)
(* promise settles, on the state it then finds.  Here pendingSearches is  *)
(* the set of the suspended invocations, numbered in the order of issue,  *)
(* and lastCall is the log of the user's actions.                         *)
(***************************************************************************)
MaxSearches == 2   \* invocations of performSearch, the initial one included

SearchIds == 1 .. MaxSearches
SearchAnswers == {Null} \cup {Some(p) : p \in DragPoints}

\* The log: how many searches were issued, the latest action of the user
\* (with the session it found), and what each settled search settled with.
SearchLog(issued, latest, answers) ==
    Some([kind |-> "searches", issued |-> issued, latest |-> latest,
          answers |-> answers])

UserAction(what, id) == [what |-> what, id |-> id, before |-> radialSelection]

\* The part of uiFrame that the specifications logging into lastCall leave alone.
logFrame == <<dlVars, lastQuery, lastSet, build, coefficients, coefLoad, storeVars>>

\* Click on the search button (or Enter): performSearch runs up to its await.
SearchIssue ==
    LET log == Val(lastCall)
        id == log.issued + 1
    IN  /\ log.issued < MaxSearches
        /\ pendingSearches' = pendingSearches \cup {id}
        /\ lastCall' = SearchLog(id, UserAction("search", id), log.answers)
        /\ UNCHANGED <<logFrame, radialSelection, mapView, isDragging, panel,
                       appState, radiusInput, rendered, committed>>

\* The promise of invocation id settles, in any order among the pending ones;
\* performSearch runs from its await to its end.
SearchSettle(id, result) ==
    LET log == Val(lastCall)
    IN  /\ id \in pendingSearches
        /\ pendingSearches' = pendingSearches \ {id}
        /\ performSearchResume(result)
        /\ lastCall' = SearchLog(log.issued, log.latest,
                                 [log.answers EXCEPT ![id] = Some(result)])
        /\ UNCHANGED <<logFrame, isDragging, appState, radiusInput>>

\* Click on the clear button, possibly while searches are pending.
SearchClear ==
    LET log == Val(lastCall)
    IN  /\ clearButtonClick
        /\ lastCall' = SearchLog(log.issued, UserAction("clear", 0), log.answers)
        /\ UNCHANGED <<logFrame, isDragging, appState, radiusInput,
                       pendingSearches>>

\* Click on a mode button, possibly while searches are pending.
SearchModeButton(mode) ==
    LET log == Val(lastCall)
    IN  /\ modeButtonClick(mode)
        /\ lastCall' = SearchLog(log.issued, UserAction(mode, 0), log.answers)
        /\ UNCHANGED <<logFrame, radialSelection, isDragging, radiusInput,
                       pendingSearches, rendered, committed>>

\* The panel is built and bindSearchEvents has started the initial search.
InitSearch ==
    /\ data = UITable
    /\ spatialIndex = Some(buildSpatialIndex(UITable))
    /\ loads = [l \in LoadIds |-> IF l = 1 THEN "done" ELSE "idle"]
    /\ lastQuery = Null
    /\ IdleSession
    /\ build \in {"panel", "cards"}
    /\ mapView = MapViewInit
    /\ isDragging = FALSE
    /\ panel = PanelInit
    /\ appState = AppStateInit
    /\ radiusInput = InitialSearchRadiusMeters * 10
    /\ pendingSearches = {1}
    /\ rendered = [stats |-> DOMAIN UITable, fairValue |-> Null]
    /\ committed = [kind |-> "none", over |-> FALSE]
    /\ coefficients = Null
    /\ coefLoad = NoCoefLoad
    /\ lastCall = SearchLog(1, [what |-> "search", id |-> 1,
                                before |-> RadialSelectionInit],
                            [i \in SearchIds |-> Null])
    /\ IdleStore

NextSearch ==
    \/ SearchIssue
    \/ \E id \in SearchIds : \E result \in SearchAnswers : SearchSettle(id, result)
    \/ SearchClear
    \/ \E mode \in Modes : SearchModeButton(mode)

SpecSearch == InitSearch /\ [][NextSearch]_vars

LatestAction == Val(lastCall).latest

\* A late result leaves the cleared selection cleared.
ClearedStaysCleared ==
    LatestAction.what = "clear"
        => /\ ~hasSelection(radialSelection)
           /\ IsNull(panel.currentTransactions)
           /\ IsNull(mapView.selectionCircle)

\* A late result leaves the session as the switch to the rectangle found it.
RectSwitchKeepsSession ==
    LatestAction.what = "rect" => radialSelection = LatestAction.before

\* Once the latest search has committed its location, the session is centred
\* there, whichever earlier searches settle afterwards.
LatestSearchWins ==
    LET answer == Val(lastCall).answers[LatestAction.id]
    IN  (/\ LatestAction.what = "search"
         /\ appState.selectionMode = "radial"
         /\ ~IsNull(answer)
         /\ ~IsNull(Val(answer)))
            => getCurrentCenter(radialSelection) = Val(answer)

\* C27: the committed selection always belongs to the latest user action: a
\* search result that arrives after a later search, after Clear, or after the
\* switch to the rectangle neither overwrites nor re-creates the selection.
C27_SelectionBelongsToLatestAction ==
    /\ ClearedStaysCleared
    /\ RectSwitchKeepsSession
    /\ LatestSearchWins

(***************************************************************************)
(* The drag gestures.  lastCall logs the callbacks setOnDragSelection      *)
(* delivers: the last one, how many onStart had no onEnd before it and     *)
(* after it, and the selection-active marker its listener found.           *)
(***************************************************************************)
MaxStarts == 2   \* onStart callbacks without an onEnd that are followed

OpenGestures == IF IsNull(lastCall) THEN 0 ELSE Val(lastCall).open

DragLog(callback, open) ==
    Some([kind |-> "drag", callback |-> callback, openBefore |-> OpenGestures,
          open |-> open, selectionActive |-> mapView.selectionActive,
          panelActive |-> panel.isSelectionModeActive])

\* mousedown on the map, with onStart logged.
DragMouseDown(p) ==
    /\ OpenGestures < MaxStarts
    /\ mousedown(p)
    /\ lastCall' = DragLog("onStart", OpenGestures + 1)
    /\ UNCHANGED logFrame

\* mousemove on the map, with onMove logged.
DragMouseMove(p) ==
    /\ mousemove(p)
    /\ lastCall' = DragLog("onMove", OpenGestures)
    /\ UNCHANGED logFrame

\* mouseup on the map, with onEnd logged.
DragMouseUp(p) ==
    /\ endDrag(p)
    /\ lastCall' = DragLog("onEnd", IF OpenGestures > 0 THEN OpenGestures - 1 ELSE 0)
    /\ UNCHANGED logFrame

NextDrag ==
    \/ \E p \in DragStarts : DragMouseDown(p)
    \/ \E p \in DragPoints : DragMouseMove(p)
    \/ \E p \in DragPoints : DragMouseUp(p)
    \/ ClickSelectArea
    \/ \E mode \in Modes : ModeButton(mode)

SpecDrag == Init /\ [][NextDrag]_vars

\* onStart is delivered only with selection mode active at the mousedown.
StartOnlyInSelectionMode ==
    (~IsNull(lastCall) /\ Val(lastCall).callback = "onStart")
        => Val(lastCall).selectionActive /\ Val(lastCall).panelActive

\* onMove and onEnd are delivered only inside a gesture.
MoveAndEndOnlyInsideGesture ==
    (~IsNull(lastCall) /\ Val(lastCall).callback \in {"onMove", "onEnd"})
        => Val(lastCall).openBefore >= 1

\* No onStart is delivered inside a gesture.
NoNestedStart == OpenGestures <= 1

\* C28: for any order of mousedown, mousemove and mouseup and any toggling of
\* the selection mode the drag callbacks are well bracketed: onStart only with
\* the selection mode active, onMove and onEnd only after an onStart that has
\* not ended, and no second onStart before the onEnd of the previous one.
C28_DragCallbacksWellBracketed ==
    /\ StartOnlyInSelectionMode
    /\ MoveAndEndOnlyInsideGesture
    /\ NoNestedStart

(***************************************************************************)
(* The copies of the selection-mode flag.                                  *)
(***************************************************************************)
FlagsAgree ==
    /\ panel.isSelectionModeActive = mapView.selectionActive
    /\ mapView.selectionActive = ~mapView.dragPan

AllFlagsOff ==
    /\ ~panel.isSelectionModeActive
    /\ ~mapView.selectionActive
    /\ mapView.dragPan

\* onEnd commits a drag selection: the gesture had a start point.
CommitDragSelection ==
    /\ ~IsNull(panel.startDrag)
    /\ \E p \in DragPoints : MouseUp(p)

\* A mode button is clicked while the selection mode is on.
SwitchTypeWhileOn ==
    /\ panel.isSelectionModeActive
    /\ \E mode \in Modes : ModeButton(mode)

\* C29: after every handler the panel's isSelectionModeActive, the map
\* container's selection-active marker and the disabled drag-panning agree;
\* committing a drag selection, and switching the selection type while the
\* mode is on, leave all of them off.
C29_SelectionModeFlagsAgree ==
    /\ []FlagsAgree
    /\ [][(CommitDragSelection \/ SwitchTypeWhileOn) => AllFlagsOff']_vars

\* The mode was turned on, a drag was committed, and the flags are all off.
C29_Witness ==
    /\ committed.kind \in Modes
    /\ ~isDragging
    /\ AllFlagsOff

(***************************************************************************)
(* The selection overlays of MapView, called in any order with corners     *)
(* in every drag direction.  lastCall logs the call and the MapView it     *)
(* found.                                                                  *)
(***************************************************************************)
OverlayPoints == {[lat |-> lat, lng |-> lng] : lat \in {13000, 13090}, lng \in {0, 90}}
OverlayRadii == {0, 5000}

OverlayLog(call, args) ==
    Some([kind |-> "overlay", call |-> call, args |-> args, before |-> mapView])

overlayFrame == <<dlVars, lastQuery, sessVars, build, isDragging, panel, appState,
                  radiusInput, pendingSearches, rendered, committed, coefficients,
                  coefLoad, storeVars>>

UpdateSelectionCircle(center, radiusMeters) ==
    /\ mapView' = updateSelectionCircle(mapView, center.lat, center.lng, radiusMeters)
    /\ lastCall' = OverlayLog("updateSelectionCircle", <<center, radiusMeters>>)
    /\ UNCHANGED overlayFrame

UpdateSelectionRect(start, end) ==
    /\ mapView' = updateSelectionRect(mapView, start.lat, start.lng, end.lat, end.lng)
    /\ lastCall' = OverlayLog("updateSelectionRect", <<start, end>>)
    /\ UNCHANGED overlayFrame

ClearSelectionCircle ==
    /\ mapView' = clearSelectionCircle(mapView)
    /\ lastCall' = OverlayLog("clearSelectionCircle", <<>>)
    /\ UNCHANGED overlayFrame

ClearSelectionRect ==
    /\ mapView' = clearSelectionRect(mapView)
    /\ lastCall' = OverlayLog("clearSelectionRect", <<>>)
    /\ UNCHANGED overlayFrame

InitOverlay ==
    /\ data = <<>>
    /\ spatialIndex = Null
    /\ loads = [l \in LoadIds |-> "idle"]
    /\ lastQuery = Null
    /\ IdleSession
    /\ IdleUI
    /\ IdleFairValue
    /\ IdleStore

NextOverlay ==
    \/ \E center \in OverlayPoints, radiusMeters \in OverlayRadii :
          UpdateSelectionCircle(center, radiusMeters)
    \/ \E start \in OverlayPoints, end \in OverlayPoints : UpdateSelectionRect(start, end)
    \/ ClearSelectionCircle
    \/ ClearSelectionRect

SpecOverlay == InitOverlay /\ [][NextOverlay]_vars

OverlayCalled(call) == ~IsNull(lastCall) /\ Val(lastCall).call = call

\* The rectangle lies between the least and the greatest coordinates of the
\* two corners it was drawn from.
NormalizedFrom(rect, start, end) ==
    /\ rect.minLat <= rect.maxLat
    /\ rect.minLng <= rect.maxLng
    /\ {rect.minLat, rect.maxLat} = {start.lat, end.lat}
    /\ {rect.minLng, rect.maxLng} = {start.lng, end.lng}

\* C30: after any sequence of updateSelectionCircle, updateSelectionRect,
\* clearSelectionCircle and clearSelectionRect at most one of the two overlays
\* is present: updating one removes the other, and the rectangle is normalized
\* to its min/max corners whatever the direction of the drag.
C30_AtMostOneOverlay ==
    /\ IsNull(mapView.selectionCircle) \/ IsNull(mapView.selectionRect)
    /\ OverlayCalled("updateSelectionCircle")
          => /\ ~IsNull(mapView.selectionCircle)
             /\ IsNull(mapView.selectionRect)
    /\ OverlayCalled("updateSelectionRect")
          => /\ IsNull(mapView.selectionCircle)
             /\ ~IsNull(mapView.selectionRect)
             /\ NormalizedFrom(Val(mapView.selectionRect),
                               Val(lastCall).args[1], Val(lastCall).args[2])

\* A rectangle dragged from the north-east to the south-west is drawn over a
\* circle.
C30_Witness ==
    /\ OverlayCalled("updateSelectionRect")
    /\ ~IsNull(Val(lastCall).before.selectionCircle)
    /\ Val(lastCall).args[1].lat > Val(lastCall).args[2].lat
    /\ Val(lastCall).args[1].lng > Val(lastCall).args[2].lng
=============================================================================
